---- MODULE Spec2Model ----
(***************************************************************************)
(* A model of the comp-gate core daemon: the device topology               *)
(* (DeviceTracker), the IOAPI wire protocol and the single-threaded event  *)
(* loop of src/bin/core.rs.                                                *)
(*                                                                         *)
(* Strings are sequences of byte values, so that case normalisation,       *)
(* framing and tokenisation are computed and not assumed.  An Option is a  *)
(* sequence of length 0 (None) or 1 (Some).  A HashMap is a function; its  *)
(* unspecified iteration order is a nondeterministic choice.               *)
(***************************************************************************)
EXTENDS Integers, Sequences, FiniteSets, TLC

VARIABLES
    phase,      \* "boot" | "running" | "load_failed" | "aborted"
    devices,    \* DeviceTracker.devices : the forest, DeviceId -> Device
    os_enabled, \* the OS side: which device nodes are currently enabled
    os_parent,  \* the OS side: the parent each device instance declares
    last_op,    \* the last tracker call, its argument and what it returned
    pc,         \* where main() is: "idle" before the loop, then "accept",
                \* "service", "poll"; "exited", "failed", "panicked" at the end
    sockets,    \* per client: the two byte streams of its TCP connection
    backlog,    \* connections the listener has not accepted yet
    ioapi_connections,      \* Vec<TcpStream>, as the clients they belong to
    index,                  \* the position of the for loop over the connections
    closed_connections,     \* Vec<usize> of this iteration
    device_connection_logs, \* Vec<Box<str>>
    processed_events,       \* the hotplug events the loop has taken so far
    event_chan,             \* the mpsc channel of UsbConnectionEvent
    finish_chan,            \* the mpsc channel of the thread's result: what is
                            \* queued in it and whether its sender still exists
    last_dispatch,          \* the command the last round of the for loop over the
                            \* connections dispatched, and the bytes it wrote
    entry,      \* the password of the keyring entry "device_whitelist": None, or
                \* the hex text that was stored last
    last_apply, \* the last operation on the whitelist: what it was given, the
                \* set_device_state calls it made, and what it returned
    EVENT_SENDER,   \* the static slot of the event channel's sender: what it
                    \* holds, how often it was written, and how many
                    \* notifications found it empty
    console     \* what the loop printed last about a tracker operation

\* what only main's start-up and its poll step write
setup_vars == <<EVENT_SENDER, console>>
\* what the tracker's and the clients' steps never touch
whitelist_vars == <<entry, last_apply, setup_vars>>
tracker_vars == <<phase, devices, os_enabled, os_parent, last_op>>
loop_vars == <<pc, sockets, backlog, ioapi_connections, index, closed_connections,
               device_connection_logs, processed_events, event_chan, finish_chan,
               last_dispatch>>
vars == <<tracker_vars, loop_vars, whitelist_vars>>

----------------------------------------------------------------------------
(* Bounds *)

NumDevices == 3     \* non-hub device instances known to the OS
MaxBoot == 3        \* devices (besides hubs) present when load() enumerates
MaxConns == 1       \* clients that ever connect to the IOAPI listener
MaxFrames == 2      \* request frames one client sends
MaxEvents == 1      \* hotplug notifications the callback thread publishes
MaxLoopBoot == 2    \* devices present when the loop starts
MaxClosing == 3     \* clients of the runs in which clients only connect and close
MaxPending == 2     \* events waiting in the event channel when poll_events is applied to it
MaxRecords == 2     \* records in a blob that is found in the keyring
MaxPathLen == 3     \* characters of a device interface path that is translated
MaxIdLen == 3       \* bytes of a device id that a command carries
MaxTokens == 2      \* tokens of a line typed into the shell

----------------------------------------------------------------------------
(* Bytes and strings *)

None == <<>>
Some(x) == <<x>>

ToUpper(s) == [i \in 1..Len(s) |-> IF s[i] \in 97..122 THEN s[i] - 32 ELSE s[i]]
ToLower(s) == [i \in 1..Len(s) |-> IF s[i] \in 65..90 THEN s[i] + 32 ELSE s[i]]

SetToSeqs(S) ==
    {f \in [1..Cardinality(S) -> S] : \A i, j \in 1..Cardinality(S) : i # j => f[i] # f[j]}

----------------------------------------------------------------------------
(* The OS as seen through the configuration manager *)

STR_usbhub3 == <<117, 115, 98, 104, 117, 98, 51>>
STR_usbhub == <<117, 115, 98, 104, 117, 98>>
STR_USBHUB3_raw == <<85, 83, 66, 72, 85, 66, 51>>
STR_HidUsb_raw == <<72, 105, 100, 85, 115, 98>>

\* device instance ids "A", "B", "C", ... ; "Y" and "Z" are hubs
DevIds == {<<64 + i>> : i \in 1..NumDevices}
HubIds == {<<89>>, <<90>>}
AllIds == DevIds \cup HubIds

\* CM_Locate_DevNodeW finds an instance whatever the letter case of the id
\* it is given; CM_Get_Device_IDW spells the id the OS's way
CM_Locate_DevNode(device_id) == ToUpper(device_id)
CM_Get_Device_ID(devinst) == ToLower(devinst)

\* DEVPKEY_Device_Service as the OS reports it (any letter case), or a
\* failed query
OsService(id) ==
    IF id = <<89>> THEN Some(STR_USBHUB3_raw)
    ELSE IF id = <<90>> THEN Some(STR_usbhub)
    ELSE IF id[1] % 2 = 1 THEN Some(STR_HidUsb_raw)
    ELSE None

\* DEVPKEY_Device_Parent.  A hub declares no parent.  The first device
\* declares no parent, a hub, or (malformed) itself; every other device
\* hangs under the device before it, under the first device or under a hub.
ParentChoices == {None} \cup {Some(d) : d \in AllIds}
Worlds ==
    {w \in [AllIds -> ParentChoices] :
        /\ \A h \in HubIds : w[h] = None
        /\ w[<<65>>] \in {None, Some(<<89>>), Some(<<65>>)}
        /\ \A i \in 2..NumDevices : w[<<64 + i>>] \in {Some(<<63 + i>>), Some(<<65>>), Some(<<90>>)}}

----------------------------------------------------------------------------
(* HashMap<DeviceId, Device> *)

EmptyMap == <<>>
Put(m, k, v) == [x \in (DOMAIN m) \cup {k} |-> IF x = k THEN v ELSE m[x]]
Del(m, k) == [x \in (DOMAIN m) \ {k} |-> m[x]]

\* Device::try_from(DeviceInstance): the id is upper-cased, the parent id is
\* upper-cased, the service name is lower-cased, tree_level starts at 0 and
\* there are no children.  The descriptive attributes other than the
\* service are not modelled.
DeviceTryFrom(devinst, parent) ==
    [devinst |-> devinst,
     device_id |-> ToUpper(CM_Get_Device_ID(devinst)),
     parent_id |-> IF parent = None THEN None
                   ELSE Some(ToUpper(CM_Get_Device_ID(parent[1]))),
     tree_level |-> 0,
     devices |-> EmptyMap,
     device_service |-> IF OsService(devinst) = None THEN None
                        ELSE Some(ToLower(OsService(devinst)[1]))]

\* a mutant that forgets the second hub driver name
device_filter_function_usbhub3_only(device) ==
    /\ device.device_service # None
    /\ device.device_service[1] = STR_usbhub3

device_filter_function(device) ==
    /\ device.device_service # None
    /\ \/ device.device_service[1] = STR_usbhub3
       \/ device.device_service[1] = STR_usbhub

----------------------------------------------------------------------------
(* Searching the forest.  A path is the sequence of keys from a root down  *)
(* to a node.                                                              *)

RECURSIVE NodeAt(_, _)
NodeAt(devs, path) ==
    IF Len(path) = 1 THEN devs[path[1]]
    ELSE NodeAt(devs[path[1]].devices, Tail(path))

\* a mutant that looks at the root level only
find_device_in_tree_roots_only(devs, target_id) ==
    IF target_id \in DOMAIN devs THEN {<<target_id>>} ELSE {}

\* find_device_in_tree / find_parent_mut / find_device_mut /
\* find_and_remove_device all search the same way: the key at this level
\* first, otherwise the sub-maps in the map's iteration order, first hit
\* wins.  The result is the set of nodes some iteration order finds.
RECURSIVE find_device_in_tree(_, _)
find_device_in_tree(devs, target_id) ==
    IF target_id \in DOMAIN devs THEN {<<target_id>>}
    ELSE UNION {{<<d>> \o p : p \in find_device_in_tree(devs[d].devices, target_id)}
                : d \in DOMAIN devs}

\* parent.devices.insert(child.device_id, child) at the node a path names
RECURSIVE InsertChildAt(_, _, _)
InsertChildAt(devs, path, child) ==
    IF Len(path) = 1
    THEN [devs EXCEPT ![path[1]].devices = Put(@, child.device_id, child)]
    ELSE [devs EXCEPT ![path[1]].devices = InsertChildAt(@, Tail(path), child)]

\* devices.remove(device_id) in the map a path leads to
RECURSIVE RemoveAt(_, _)
RemoveAt(devs, path) ==
    IF Len(path) = 1 THEN Del(devs, path[1])
    ELSE [devs EXCEPT ![path[1]].devices = RemoveAt(@, Tail(path))]

\* every node of a forest, as the set of paths to them
RECURSIVE AllPaths(_)
AllPaths(devs) ==
    UNION {{<<d>>} \cup {<<d>> \o p : p \in AllPaths(devs[d].devices)} : d \in DOMAIN devs}

\* the ids that occur anywhere in a forest
IdsIn(devs) == {p[Len(p)] : p \in AllPaths(devs)}

----------------------------------------------------------------------------
(* DeviceTracker::insert_deivice_into_tree *)

\* the loop over orphan_ids: each orphan is taken out of the root map and,
\* if the new device is (still) a root, put under it with
\* tree_level = new_parent.tree_level + 1; the orphan's own children keep
\* the tree_level they had
RECURSIVE ReparentOrphans(_, _, _)
ReparentOrphans(devs, new_device_id, orphan_ids) ==
    IF orphan_ids = <<>> THEN devs
    ELSE LET orphan_id == Head(orphan_ids)
             next ==
                 IF orphan_id \notin DOMAIN devs THEN devs
                 ELSE LET orphan == devs[orphan_id]
                          rest == Del(devs, orphan_id)
                      IN IF new_device_id \notin DOMAIN rest THEN rest
                         ELSE [rest EXCEPT ![new_device_id].devices =
                                 Put(@, orphan_id,
                                     [orphan EXCEPT !.tree_level =
                                         rest[new_device_id].tree_level + 1])]
         IN ReparentOrphans(next, new_device_id, Tail(orphan_ids))

\* the forests insert_deivice_into_tree can leave behind
insert_deivice_into_tree(devs, new_device) ==
    LET new_device_id == new_device.device_id
        parents == IF new_device.parent_id = None THEN {}
                   ELSE find_device_in_tree(devs, new_device.parent_id[1])
        with_root == Put(devs, new_device_id, new_device)
        orphans == {id \in DOMAIN with_root :
                       with_root[id].parent_id = Some(new_device_id)}
    IN IF parents # {}
       THEN {InsertChildAt(devs, p,
                 [new_device EXCEPT !.tree_level = NodeAt(devs, p).tree_level + 1])
             : p \in parents}
       ELSE {ReparentOrphans(with_root, new_device_id, ord) : ord \in SetToSeqs(orphans)}

----------------------------------------------------------------------------
(* convert_devices_into_tree and place_child_in_parent.  A conversion      *)
(* state is [fail, devices]; fail is "none", "panic" (an unwrap() on None) *)
(* or "overflow" (the recursion never returns).                            *)

MaxRecursion == 2 * (NumDevices + 2) + 2

FirstPairOf(parent_ids, child_id) ==
    LET hits == {i \in 1..Len(parent_ids) : parent_ids[i][1] = child_id}
    IN IF hits = {} THEN None
       ELSE Some(parent_ids[CHOOSE i \in hits : \A j \in hits : i <= j])

RECURSIVE place_child_in_parent(_, _, _, _, _, _, _)
RECURSIVE PlaceDescendants(_, _, _, _, _, _)

\* while let Some((pid, cid)) = parent_ids.iter().find(|(p, _)| p == child_id)
\* parent_ids never changes, so the same pair is found on every round
PlaceDescendants(child_id, st, device_ids, parent_ids, level, fuel) ==
    LET found == FirstPairOf(parent_ids, child_id)
    IN IF st.fail # "none" \/ found = None THEN st
       ELSE IF fuel = 0 THEN [st EXCEPT !.fail = "overflow"]
       ELSE PlaceDescendants(child_id,
                place_child_in_parent(found[1][1], found[1][2], st, device_ids,
                                      parent_ids, level + 1, fuel - 1),
                device_ids, parent_ids, level, fuel - 1)

place_child_in_parent(parent_id, child_id, st, device_ids, parent_ids, level, fuel) ==
    IF st.fail # "none" \/ parent_id \notin device_ids THEN st
    ELSE IF fuel = 0 THEN [st EXCEPT !.fail = "overflow"]
    ELSE LET st1 == PlaceDescendants(child_id, st, device_ids, parent_ids, level, fuel - 1)
         IN IF st1.fail # "none" THEN st1
            ELSE IF child_id \notin DOMAIN st1.devices       \* remove(child_id).unwrap()
            THEN [st1 EXCEPT !.fail = "panic"]
            ELSE LET child_device == st1.devices[child_id]
                     rest == Del(st1.devices, child_id)
                 IN IF parent_id \notin DOMAIN rest         \* get_mut(parent_id).unwrap()
                    THEN [fail |-> "panic", devices |-> rest]
                    ELSE [fail |-> "none",
                          devices |-> [rest EXCEPT ![parent_id].devices =
                              Put(@, child_id,
                                  [child_device EXCEPT !.tree_level = level + 1])]]

RECURSIVE ConvertPairs(_, _, _, _)
ConvertPairs(st, device_ids, parent_ids, i) ==
    IF i > Len(parent_ids) THEN st
    ELSE ConvertPairs(
             place_child_in_parent(parent_ids[i][1], parent_ids[i][2], st,
                                   device_ids, parent_ids, 0, MaxRecursion),
             device_ids, parent_ids, i + 1)

\* the outcomes of convert_devices_into_tree over the iteration orders of
\* the flat map
convert_devices_into_tree(flat) ==
    LET device_ids == DOMAIN flat
        pairs == {<<flat[d].parent_id[1], d>> : d \in {x \in DOMAIN flat : flat[x].parent_id # None}}
    IN {ConvertPairs([fail |-> "none", devices |-> flat], device_ids, parent_ids, 1)
        : parent_ids \in SetToSeqs(pairs)}

----------------------------------------------------------------------------
(* DeviceTracker::merge_device_trees *)

\* collect_devices: the devices of a tree in the order they are pushed,
\* each with its children taken out
RECURSIVE CollectOrders(_)
RECURSIVE CollectSeq(_, _)
CollectSeq(devs, ord) ==
    IF ord = <<>> THEN {<<>>}
    ELSE LET d == devs[Head(ord)]
         IN {<<[d EXCEPT !.devices = EmptyMap]>> \o sub \o rest :
                sub \in CollectOrders(d.devices), rest \in CollectSeq(devs, Tail(ord))}
CollectOrders(devs) == UNION {CollectSeq(devs, ord) : ord \in SetToSeqs(DOMAIN devs)}

\* one round of the loop "for mut device in devices_to_insert"
MergeOne(base_tree, device) ==
    LET device_id == device.device_id
        parents == IF device.parent_id = None THEN {}
                   ELSE find_device_in_tree(base_tree, device.parent_id[1])
        with_root == Put(base_tree, device_id, [device EXCEPT !.tree_level = 0])
        orphans == {id \in DOMAIN with_root :
                       /\ id # device_id
                       /\ with_root[id].parent_id = Some(device_id)}
    IN IF parents # {}
       THEN {InsertChildAt(base_tree, p,
                 [device EXCEPT !.tree_level = NodeAt(base_tree, p).tree_level + 1])
             : p \in parents}
       ELSE {ReparentOrphans(with_root, device_id, ord) : ord \in SetToSeqs(orphans)}

RECURSIVE MergeSeq(_, _)
MergeSeq(base_tree, devices_to_insert) ==
    IF devices_to_insert = <<>> THEN {base_tree}
    ELSE UNION {MergeSeq(b, Tail(devices_to_insert))
                : b \in MergeOne(base_tree, Head(devices_to_insert))}

merge_device_trees(base_tree, tree_to_merge) ==
    UNION {MergeSeq(base_tree, ord) : ord \in CollectOrders(tree_to_merge)}

----------------------------------------------------------------------------
(* DeviceTracker::load *)

\* get_listed_devices: every enumerated instance becomes a Device, hubs are
\* left out, and the flat map is converted into a tree
get_listed_devices(instances, parent) ==
    LET flat == [id \in {ToUpper(CM_Get_Device_ID(i)) :
                           i \in {x \in instances :
                                    ~device_filter_function(DeviceTryFrom(x, parent[x]))}}
                 |-> DeviceTryFrom(id, parent[id])]
    IN convert_devices_into_tree(flat)

\* merge_device_information_sets over the USB set, then the HID set
merge_device_information_sets(usb, hid, parent) ==
    UNION {IF t1.fail # "none" THEN {t1}
           ELSE UNION {UNION {IF t2.fail # "none" THEN {t2}
                              ELSE {[fail |-> "none", devices |-> m2]
                                    : m2 \in merge_device_trees(m1, t2.devices)}
                              : t2 \in get_listed_devices(hid, parent)}
                       : m1 \in merge_device_trees(EmptyMap, t1.devices)}
           : t1 \in get_listed_devices(usb, parent)}

NoOp == [op |-> "none", id |-> <<>>, result |-> "", target |-> <<>>]
NoDispatch == [client |-> 0, cmd |-> "none", arg |-> <<>>, result |-> "", wrote |-> <<>>]

Clients == 1..MaxConns
NewSocket == [state |-> "new", sent |-> <<>>, wire |-> <<>>, rx |-> <<>>, tx |-> <<>>]

\* main() before DeviceTracker::load(): nothing is connected, nothing logged
LoopIdle ==
    /\ pc = "idle"
    /\ sockets = [c \in Clients |-> NewSocket]
    /\ backlog = <<>>
    /\ ioapi_connections = <<>>
    /\ index = 0
    /\ closed_connections = <<>>
    /\ device_connection_logs = <<>>
    /\ processed_events = <<>>
    /\ event_chan = <<>>
    /\ finish_chan = [queue |-> <<>>, open |-> TRUE]
    /\ last_dispatch = NoDispatch

\* main() before Whitelist::new(): nothing has been stored in the keyring
NoApply == [op |-> "none", arg |-> <<>>, stored |-> <<>>, loaded |-> {}, calls |-> <<>>,
            result |-> ""]
WhitelistIdle ==
    /\ entry = None
    /\ last_apply = NoApply

Init ==
    /\ phase = "boot"
    /\ devices = EmptyMap
    /\ os_enabled = [d \in AllIds |-> TRUE]
    /\ os_parent \in Worlds
    /\ last_op = NoOp
    /\ LoopIdle
    /\ WhitelistIdle
    /\ EVENT_SENDER = [sender |-> None, installs |-> 0, discarded |-> 0]
    /\ console = ""

\* the outcomes of DeviceTracker::load(): the hubs are always there; the
\* devices of "present" are there, those of "usb" listed under the USB
\* enumerator and the others under the HID enumerator
load(present, usb, os_ok, parent) ==
    IF ~os_ok THEN {[result |-> "Win32Error", devices |-> EmptyMap]}
    ELSE {[result |-> IF out.fail = "none" THEN "Ok" ELSE out.fail,
           devices |-> IF out.fail = "none" THEN out.devices ELSE EmptyMap]
          : out \in merge_device_information_sets(usb \cup HubIds, present \ usb, parent)}

Load ==
    /\ phase = "boot"
    /\ \E present \in {S \in SUBSET DevIds : Cardinality(S) <= MaxBoot} :
       \E usb \in SUBSET present :
       \E os_ok \in BOOLEAN :
       \E out \in load(present, usb, os_ok, os_parent) :
          /\ phase' = CASE out.result = "Ok" -> "running"
                        [] out.result = "Win32Error" -> "load_failed"
                        [] OTHER -> "aborted"
          /\ devices' = out.devices
          /\ last_op' = [NoOp EXCEPT !.op = "load", !.result = out.result]
    /\ UNCHANGED <<os_enabled, os_parent>>
    /\ UNCHANGED loop_vars
    /\ UNCHANGED whitelist_vars

----------------------------------------------------------------------------
(* The tracker's operations *)

InsertArgs == AllIds \cup {ToLower(d) : d \in DevIds}

\* insert_device_by_id placing the device before it looks at the filter
insert_device_by_id_inserts_first(devs, device_id, os_ok, parent) ==
    LET devinst == CM_Locate_DevNode(device_id)
        new_device == DeviceTryFrom(devinst, parent[devinst])
    IN IF ~os_ok
       THEN {[result |-> "Win32Error", id |-> new_device.device_id, devices |-> devs]}
       ELSE {[result |-> IF device_filter_function(new_device)
                         THEN "DeviceFilteredNotUsb" ELSE "Ok",
              id |-> new_device.device_id, devices |-> t]
             : t \in insert_deivice_into_tree(devs, new_device)}

\* DeviceTracker::insert_device_by_id(device_id): the results it can have
\* and the forests it can leave.  os_ok is whether CM_Locate_DevNodeW and
\* CM_Get_Device_IDW succeed.
insert_device_by_id(devs, device_id, os_ok, parent) ==
    LET devinst == CM_Locate_DevNode(device_id)
        new_device == DeviceTryFrom(devinst, parent[devinst])
    IN IF ~os_ok
       THEN {[result |-> "Win32Error", id |-> new_device.device_id, devices |-> devs]}
       ELSE IF device_filter_function(new_device)
       THEN {[result |-> "DeviceFilteredNotUsb", id |-> new_device.device_id, devices |-> devs]}
       ELSE {[result |-> "Ok", id |-> new_device.device_id, devices |-> t]
             : t \in insert_deivice_into_tree(devs, new_device)}

\* DeviceTracker::remove_device_by_id(device_id)
remove_device_by_id(devs, device_id) ==
    LET found == find_device_in_tree(devs, device_id)
    IN IF found = {} THEN {[result |-> "None", devices |-> devs]}
       ELSE {[result |-> "Some", devices |-> RemoveAt(devs, p)] : p \in found}

\* Device::change_state: CM_Enable_DevNode / CM_Disable_DevNode on the
\* device's instance; a failure is a ConfigManagerError
change_state(enabled, devinst, new_state, cr_success) ==
    IF cr_success
    THEN [result |-> "Ok", enabled |-> [enabled EXCEPT ![devinst] = (new_state = "Enable")]]
    ELSE [result |-> "ConfigManagerError", enabled |-> enabled]

\* DeviceTracker::set_device_state(device_id, state)
set_device_state(devs, enabled, device_id, state) ==
    LET found == find_device_in_tree(devs, device_id)
    IN IF found = {}
       THEN {[result |-> "DeviceNotExist", target |-> <<>>, enabled |-> enabled]}
       ELSE {[result |-> change_state(enabled, NodeAt(devs, p).devinst, state, cr).result,
              target |-> NodeAt(devs, p).devinst,
              enabled |-> change_state(enabled, NodeAt(devs, p).devinst, state, cr).enabled]
             : p \in found, cr \in BOOLEAN}

InsertDeviceById(device_id) ==
    /\ phase = "running"
    /\ \E os_ok \in BOOLEAN :
       \E out \in insert_device_by_id(devices, device_id, os_ok, os_parent) :
          /\ devices' = out.devices
          /\ last_op' = [NoOp EXCEPT !.op = "insert", !.id = out.id, !.result = out.result]
    /\ UNCHANGED <<phase, os_enabled, os_parent>>
    /\ UNCHANGED loop_vars
    /\ UNCHANGED whitelist_vars

RemoveDeviceById(device_id) ==
    /\ phase = "running"
    /\ \E out \in remove_device_by_id(devices, device_id) :
          /\ devices' = out.devices
          /\ last_op' = [NoOp EXCEPT !.op = "remove", !.id = device_id, !.result = out.result]
    /\ UNCHANGED <<phase, os_enabled, os_parent>>
    /\ UNCHANGED loop_vars
    /\ UNCHANGED whitelist_vars

SetDeviceState(device_id, state) ==
    /\ phase = "running"
    /\ \E out \in set_device_state(devices, os_enabled, device_id, state) :
          /\ os_enabled' = out.enabled
          /\ last_op' = [NoOp EXCEPT !.op = state, !.id = device_id,
                                     !.result = out.result, !.target = out.target]
    /\ UNCHANGED <<phase, devices, os_parent>>
    /\ UNCHANGED loop_vars
    /\ UNCHANGED whitelist_vars

TrackerInsert == \E device_id \in InsertArgs : InsertDeviceById(device_id)
TrackerRemove == \E device_id \in AllIds : RemoveDeviceById(device_id)
TrackerSetState ==
    \E device_id \in AllIds \cup {ToLower(d) : d \in DevIds}, state \in {"Enable", "Disable"} :
        SetDeviceState(device_id, state)

\* the topology: load() and the hotplug-driven inserts and removes
Next ==
    \/ Load
    \/ TrackerInsert
    \/ TrackerRemove

Spec == Init /\ [][Next]_vars

\* the well-formed world: the devices form one chain below a hub
ChainWorld ==
    /\ os_parent[<<65>>] = Some(<<89>>)
    /\ \A i \in 2..NumDevices : os_parent[<<64 + i>>] = Some(<<63 + i>>)

\* the topology together with enable/disable, in the well-formed world
InitState ==
    /\ Init
    /\ ChainWorld

NextState ==
    \/ Load
    \/ TrackerInsert
    \/ TrackerRemove
    \/ TrackerSetState

SpecState == InitState /\ [][NextState]_vars

----------------------------------------------------------------------------
(* The whitelist: its bytes in the keyring *)

\* u64::to_le_bytes of a length
u64_to_le_bytes(n) ==
    <<n % 256, (n \div 256) % 256, (n \div 65536) % 256, (n \div 16777216) % 256,
      0, 0, 0, 0>>

\* "i + len" on usize (64 bits), len given by its eight little-endian bytes:
\* the bytes of the sum, and the carry out of the 64 bits
RECURSIVE usize_add(_, _)
usize_add(digits, carry) ==
    IF digits = <<>> THEN [digits |-> <<>>, carry |-> carry]
    ELSE LET t == Head(digits) + carry
             rest == usize_add(Tail(digits), t \div 256)
         IN [digits |-> <<t % 256>> \o rest.digits, carry |-> rest.carry]

\* the value of eight little-endian bytes that is known to be small
usize_value(digits) ==
    digits[1] + 256 * digits[2] + 65536 * digits[3] + 16777216 * digits[4]

\* "x > bytes.len()" for x given by its eight little-endian bytes
usize_gt(digits, n) ==
    \/ \E k \in 5..8 : digits[k] # 0
    \/ digits[4] >= 128
    \/ usize_value(digits) > n

\* str::from_utf8: is the slice well-formed UTF-8
Continuation(b) == b >= 128 /\ b <= 191
RECURSIVE from_utf8_ok(_)
from_utf8_ok(b) ==
    IF b = <<>> THEN TRUE
    ELSE LET c == b[1]
             n == Len(b)
         IN CASE c < 128 -> from_utf8_ok(Tail(b))
              [] c >= 194 /\ c <= 223 ->
                   /\ n >= 2 /\ Continuation(b[2])
                   /\ from_utf8_ok(SubSeq(b, 3, n))
              [] c >= 224 /\ c <= 239 ->
                   /\ n >= 3 /\ Continuation(b[2]) /\ Continuation(b[3])
                   /\ (c = 224 => b[2] >= 160)
                   /\ (c = 237 => b[2] <= 159)
                   /\ from_utf8_ok(SubSeq(b, 4, n))
              [] c >= 240 /\ c <= 244 ->
                   /\ n >= 4 /\ Continuation(b[2]) /\ Continuation(b[3])
                   /\ Continuation(b[4])
                   /\ (c = 240 => b[2] >= 144)
                   /\ (c = 244 => b[2] <= 143)
                   /\ from_utf8_ok(SubSeq(b, 5, n))
              [] OTHER -> FALSE

\* serialize_set_bytes: [u64 len LE][bytes] for each id, in the order the
\* HashSet hands them out
RECURSIVE SerializeSeq(_)
SerializeSeq(ids) ==
    IF ids = <<>> THEN <<>>
    ELSE u64_to_le_bytes(Len(Head(ids))) \o Head(ids) \o SerializeSeq(Tail(ids))

serialize_set_bytes(set) == {SerializeSeq(ord) : ord \in SetToSeqs(set)}

\* deserialize_set_bytes, the while loop from offset i on.  "i + len" that
\* does not fit in 64 bits panics in a build with overflow checks; without
\* them it wraps to less than i, passes the test, and the slice
\* bytes[i..i + len] panics
RECURSIVE DeserializeFrom(_, _, _)
DeserializeFrom(bytes, i, out) ==
    IF ~(i < Len(bytes)) THEN [result |-> "Ok", set |-> out]
    ELSE IF i + 8 > Len(bytes) THEN [result |-> "CorruptEofLength", set |-> {}]
    ELSE LET len == SubSeq(bytes, i + 1, i + 8)
             sum == usize_add(len, i + 8)
         IN IF sum.carry # 0 THEN [result |-> "panic", set |-> {}]
            ELSE IF usize_gt(sum.digits, Len(bytes))
            THEN [result |-> "CorruptEofString", set |-> {}]
            ELSE LET slice == SubSeq(bytes, i + 9, i + 8 + usize_value(len))
                 IN IF ~from_utf8_ok(slice)
                    THEN [result |-> "CorruptUtf8", set |-> {}]
                    ELSE DeserializeFrom(bytes, i + 8 + usize_value(len),
                                         out \cup {slice})

deserialize_set_bytes(bytes) == DeserializeFrom(bytes, 0, {})

\* encode_hex: two lower-case hex digits for each byte
HEX == <<48, 49, 50, 51, 52, 53, 54, 55, 56, 57, 97, 98, 99, 100, 101, 102>>

RECURSIVE encode_hex(_)
encode_hex(bytes) ==
    IF bytes = <<>> THEN <<>>
    ELSE <<HEX[(Head(bytes) \div 16) + 1], HEX[(Head(bytes) % 16) + 1]>>
         \o encode_hex(Tail(bytes))

\* a mutant that knows the decimal digits only
hex_val_decimal_only(c) ==
    IF c >= 48 /\ c <= 57 THEN Some(c - 48) ELSE None

\* hex_val: None stands for the error "invalid hex char"
hex_val(c) ==
    CASE c >= 48 /\ c <= 57 -> Some(c - 48)
      [] c >= 97 /\ c <= 102 -> Some(10 + (c - 97))
      [] c >= 65 /\ c <= 70 -> Some(10 + (c - 65))
      [] OTHER -> None

\* decode_hex, the while loop over the pairs of digits
RECURSIVE DecodePairs(_)
DecodePairs(s) ==
    IF s = <<>> THEN [result |-> "Ok", bytes |-> <<>>]
    ELSE LET hi == hex_val(s[1])
             lo == hex_val(s[2])
         IN IF hi = None \/ lo = None THEN [result |-> "InvalidHexChar", bytes |-> <<>>]
            ELSE LET rest == DecodePairs(SubSeq(s, 3, Len(s)))
                 IN IF rest.result # "Ok" THEN rest
                    ELSE [result |-> "Ok",
                          bytes |-> <<((hi[1] * 16) % 256) + lo[1]>> \o rest.bytes]

decode_hex(s) ==
    IF Len(s) % 2 # 0 THEN [result |-> "InvalidHexLength", bytes |-> <<>>]
    ELSE DecodePairs(s)

\* Whitelist::load_whitelist on the keyring entry; get_password fails when
\* nothing is stored
load_whitelist(password) ==
    IF password = None THEN [result |-> "KeyringError", set |-> {}]
    ELSE LET bytes == decode_hex(password[1])
         IN IF bytes.result # "Ok" THEN [result |-> bytes.result, set |-> {}]
            ELSE deserialize_set_bytes(bytes.bytes)

\* Whitelist::store_whitelist: the passwords it may leave in the keyring
store_whitelist(set) == {Some(encode_hex(bytes)) : bytes \in serialize_set_bytes(set)}

\* main() after Whitelist::new(device_tracker) has returned Ok: the ids of the
\* root-level devices are in the keyring
WhitelistCreated ==
    /\ entry \in store_whitelist(DOMAIN devices)
    /\ last_apply = [NoApply EXCEPT !.op = "new", !.stored = Some(DOMAIN devices),
                                    !.result = "Ok"]

----------------------------------------------------------------------------
(* The whitelist: its operations *)

\* DeviceIterator: the stack starts as the root-level devices, next() pops the
\* last one and pushes its children; the orders are those of the HashMaps.
\* The devices are given by their paths in the forest.
RECURSIVE IterFrom(_, _)
IterFrom(devs, stack) ==
    IF stack = <<>> THEN {<<>>}
    ELSE LET path == stack[Len(stack)]
             rest == SubSeq(stack, 1, Len(stack) - 1)
             children == DOMAIN NodeAt(devs, path).devices
         IN UNION {{<<path>> \o more :
                       more \in IterFrom(devs, rest \o [k \in 1..Len(ord) |-> path \o <<ord[k]>>])}
                   : ord \in SetToSeqs(children)}

\* an iterator that hands out every traversal back to front
DeviceTracker_iter_backwards(devs) ==
    {[k \in 1..Len(seq) |-> seq[Len(seq) + 1 - k]] :
        seq \in UNION {IterFrom(devs, [k \in 1..Len(ord) |-> <<ord[k]>>])
                       : ord \in SetToSeqs(DOMAIN devs)}}

\* a mutant that walks the root-level devices only
DeviceTracker_iter_roots_only(devs) ==
    {[k \in 1..Len(ord) |-> <<ord[k]>>] : ord \in SetToSeqs(DOMAIN devs)}

DeviceTracker_iter(devs) ==
    UNION {IterFrom(devs, [k \in 1..Len(ord) |-> <<ord[k]>>]) : ord \in SetToSeqs(DOMAIN devs)}

\* the for loop of apply_whitelist over the devices still to visit: each
\* gets set_device_state(Enable) if its id is in the whitelist and
\* set_device_state(Disable) if not, and "?" returns at the first error
RECURSIVE ApplyLoop(_, _, _, _, _)
ApplyLoop(devs, todo, whitelist_entries, enabled, calls) ==
    IF todo = <<>> THEN {[result |-> "Ok", enabled |-> enabled, calls |-> calls]}
    ELSE LET d == NodeAt(devs, Head(todo))
             state == IF d.device_id \in whitelist_entries THEN "Enable" ELSE "Disable"
         IN UNION {IF out.result # "Ok"
                   THEN {[result |-> out.result, enabled |-> out.enabled,
                          calls |-> Append(calls, [id |-> d.device_id, state |-> state,
                                                   result |-> out.result])]}
                   ELSE ApplyLoop(devs, Tail(todo), whitelist_entries, out.enabled,
                                  Append(calls, [id |-> d.device_id, state |-> state,
                                                 result |-> "Ok"]))
                   : out \in set_device_state(devs, enabled, d.device_id, state)}

\* Whitelist::apply_whitelist
apply_whitelist(devs, enabled, password) ==
    LET loaded == load_whitelist(password)
    IN IF loaded.result # "Ok"
       THEN {[result |-> loaded.result, enabled |-> enabled, calls |-> <<>>,
              loaded |-> {}]}
       ELSE {[result |-> out.result, enabled |-> out.enabled, calls |-> out.calls,
              loaded |-> loaded.set]
             : out \in UNION {ApplyLoop(devs, ord, loaded.set, enabled, <<>>)
                              : ord \in DeviceTracker_iter(devs)}}

\* the ids the whitelist is asked about
WhitelistArgs == DevIds

\* Whitelist::whitelist_device(device_id)
WhitelistDevice ==
    /\ phase = "running"
    /\ \E device_id \in WhitelistArgs :
          LET loaded == load_whitelist(entry)
          IN IF loaded.result # "Ok"
             THEN /\ entry' = entry
                  /\ last_apply' = [NoApply EXCEPT !.op = "whitelist_device",
                                       !.arg = device_id, !.result = loaded.result]
             ELSE /\ entry' \in store_whitelist(loaded.set \cup {device_id})
                  /\ last_apply' = [NoApply EXCEPT !.op = "whitelist_device",
                                       !.arg = device_id, !.result = "Ok"]
    /\ UNCHANGED tracker_vars
    /\ UNCHANGED loop_vars
    /\ UNCHANGED setup_vars

\* a mutant that disables the device it takes off the whitelist
BlacklistDevice_disables ==
    /\ phase = "running"
    /\ \E device_id \in WhitelistArgs :
          LET loaded == load_whitelist(entry)
          IN /\ loaded.result = "Ok"
             /\ entry' \in store_whitelist(loaded.set \ {device_id})
             /\ last_apply' = [NoApply EXCEPT !.op = "blacklist_device",
                                              !.arg = device_id, !.result = "Ok"]
             /\ os_enabled' = [os_enabled EXCEPT ![device_id] = FALSE]
    /\ UNCHANGED <<phase, devices, os_parent, last_op>>
    /\ UNCHANGED loop_vars
    /\ UNCHANGED setup_vars

\* Whitelist::blacklist_device(device_id)
BlacklistDevice ==
    /\ phase = "running"
    /\ \E device_id \in WhitelistArgs :
          LET loaded == load_whitelist(entry)
          IN IF loaded.result # "Ok"
             THEN /\ entry' = entry
                  /\ last_apply' = [NoApply EXCEPT !.op = "blacklist_device",
                                       !.arg = device_id, !.result = loaded.result]
             ELSE /\ entry' \in store_whitelist(loaded.set \ {device_id})
                  /\ last_apply' = [NoApply EXCEPT !.op = "blacklist_device",
                                       !.arg = device_id, !.result = "Ok"]
    /\ UNCHANGED tracker_vars
    /\ UNCHANGED loop_vars
    /\ UNCHANGED setup_vars

\* Whitelist::apply_whitelist(); "arg" notes whether the pass changed what the
\* OS has enabled
ApplyWhitelist ==
    /\ phase = "running"
    /\ \E out \in apply_whitelist(devices, os_enabled, entry) :
          /\ os_enabled' = out.enabled
          /\ last_apply' = [NoApply EXCEPT !.op = "apply_whitelist",
                                           !.arg = IF out.enabled = os_enabled
                                                   THEN "same" ELSE "changed",
                                           !.loaded = out.loaded, !.calls = out.calls,
                                           !.result = out.result]
    /\ UNCHANGED <<phase, devices, os_parent, last_op, entry>>
    /\ UNCHANGED loop_vars
    /\ UNCHANGED setup_vars

\* main() after load() and Whitelist::new(), with every device present and
\* the first one listed by the USB enumerator, in any world
InitWhitelist ==
    /\ phase = "running"
    /\ os_enabled = [d \in AllIds |-> TRUE]
    /\ os_parent \in Worlds
    /\ \E out \in load(DevIds, {<<65>>}, TRUE, os_parent) :
          /\ out.result = "Ok"
          /\ devices = out.devices
    /\ last_op = [NoOp EXCEPT !.op = "load", !.result = "Ok"]
    /\ LoopIdle
    /\ WhitelistCreated
    /\ EVENT_SENDER = [sender |-> None, installs |-> 0, discarded |-> 0]
    /\ console = ""

NextWhitelist ==
    \/ WhitelistDevice
    \/ BlacklistDevice
    \/ ApplyWhitelist

SpecWhitelist == InitWhitelist /\ [][NextWhitelist]_vars

----------------------------------------------------------------------------
(* The IOAPI wire format *)

\* "Device enabled."
STR_Device_enabled == <<68, 101, 118, 105, 99, 101, 32, 101, 110, 97, 98, 108, 101, 100, 46>>
\* "Device disabled."
STR_Device_disabled == <<68, 101, 118, 105, 99, 101, 32, 100, 105, 115, 97, 98, 108, 101, 100, 46>>
\* "Enabling device failed: "
STR_Enabling_failed == <<69, 110, 97, 98, 108, 105, 110, 103, 32, 100, 101, 118, 105, 99, 101, 32, 102, 97, 105, 108, 101, 100, 58, 32>>
\* "Disabling device failed: "
STR_Disabling_failed == <<68, 105, 115, 97, 98, 108, 105, 110, 103, 32, 100, 101, 118, 105, 99, 101, 32, 102, 97, 105, 108, 101, 100, 58, 32>>
\* "Device does not exist"
STR_DeviceNotExist == <<68, 101, 118, 105, 99, 101, 32, 100, 111, 101, 115, 32, 110, 111, 116, 32, 101, 120, 105, 115, 116>>
\* "Config manager error"
STR_ConfigManagerError == <<67, 111, 110, 102, 105, 103, 32, 109, 97, 110, 97, 103, 101, 114, 32, 101, 114, 114, 111, 114>>
\* "USB Device connected: "
STR_connected == <<85, 83, 66, 32, 68, 101, 118, 105, 99, 101, 32, 99, 111, 110, 110, 101, 99, 116, 101, 100, 58, 32>>
\* "USB Device disconnected: "
STR_disconnected == <<85, 83, 66, 32, 68, 101, 118, 105, 99, 101, 32, 100, 105, 115, 99, 111, 110, 110, 101, 99, 116, 101, 100, 58, 32>>
\* "Device ID: "
STR_Device_ID == <<68, 101, 118, 105, 99, 101, 32, 73, 68, 58, 32>>
\* " - Device Service: "
STR_Device_Service == <<32, 45, 32, 68, 101, 118, 105, 99, 101, 32, 83, 101, 114, 118, 105, 99, 101, 58, 32>>
\* " - Device Class: "
STR_Device_Class == <<32, 45, 32, 68, 101, 118, 105, 99, 101, 32, 67, 108, 97, 115, 115, 58, 32>>
\* " - Device Friendly Name: "
STR_Device_Friendly_Name == <<32, 45, 32, 68, 101, 118, 105, 99, 101, 32, 70, 114, 105, 101, 110, 100, 108, 121, 32, 78, 97, 109, 101, 58, 32>>
\* " - Device Type: "
STR_Device_Type == <<32, 45, 32, 68, 101, 118, 105, 99, 101, 32, 84, 121, 112, 101, 58, 32>>
\* " - Device Description: "
STR_Device_Description == <<32, 45, 32, 68, 101, 118, 105, 99, 101, 32, 68, 101, 115, 99, 114, 105, 112, 116, 105, 111, 110, 58, 32>>
\* "Sub-device:"
STR_Sub_device == <<83, 117, 98, 45, 100, 101, 118, 105, 99, 101, 58>>
\* "None"
STR_None == <<78, 111, 110, 101>>
\* "\\?\", the prefix of a device interface path
STR_path_prefix == <<92, 92, 63, 92>>
\* "#{g}", the interface class GUID that ends a device interface path
STR_guid_suffix == <<35, 123, 103, 125>>

\* the bytes vec![0u8; 1024] starts the logs payload with
LogPayloadPad == 1024

RECURSIVE Concat(_)
Concat(seqs) == IF seqs = <<>> THEN <<>> ELSE Head(seqs) \o Concat(Tail(seqs))

\* (n as u32).to_be_bytes(); a length never reaches 2^32 here
u32_to_be_bytes(n) ==
    <<(n \div 16777216) % 256, (n \div 65536) % 256, (n \div 256) % 256, n % 256>>

u32_from_be_bytes(b) == b[1] * 16777216 + b[2] * 65536 + b[3] * 256 + b[4]

convert_bytes_to_payload(bytes) == u32_to_be_bytes(Len(bytes)) \o bytes

\* String::from_utf8_lossy: a well-formed character is kept, a byte that
\* starts none becomes U+FFFD
RECURSIVE from_utf8_lossy(_)
from_utf8_lossy(b) ==
    IF b = <<>> THEN <<>>
    ELSE LET sizes == {k \in 1..4 : k <= Len(b) /\ from_utf8_ok(SubSeq(b, 1, k))}
         IN IF sizes = {}
            THEN <<239, 191, 189>> \o from_utf8_lossy(Tail(b))
            ELSE LET k == CHOOSE x \in sizes : \A y \in sizes : x <= y
                 IN SubSeq(b, 1, k) \o from_utf8_lossy(SubSeq(b, k + 1, Len(b)))

\* str::split(sep): the pieces between the separators, at least one piece
RECURSIVE split(_, _)
split(str, sep) ==
    LET hits == {i \in 1..Len(str) : str[i] = sep}
    IN IF hits = {} THEN <<str>>
       ELSE LET i == CHOOSE x \in hits : \A y \in hits : x <= y
            IN <<SubSeq(str, 1, i - 1)>> \o split(SubSeq(str, i + 1, Len(str)), sep)

\* impl TryFrom<(u8, Vec<Rc<str>>)> for IoApiCommand
IoApiCommand_try_from(code, args) ==
    CASE code = 2 -> Some([cmd |-> "GetDeviceList", arg |-> <<>>])
      [] code = 3 -> Some([cmd |-> "DisableDevice", arg |-> args[1]])
      [] code = 4 -> Some([cmd |-> "EnableDevice", arg |-> args[1]])
      [] code = 5 -> Some([cmd |-> "GetDeviceConnectionLogs", arg |-> <<>>])
      [] OTHER -> None

\* parse_cmd_message(connection, message_length) on a connection with the
\* bytes rx to read: the command, if any, and the bytes left to read.  A
\* read_exact that cannot fill its buffer has taken the bytes that were there.
parse_cmd_message(rx, message_length) ==
    IF Len(rx) < message_length THEN [cmd |-> None, rx |-> <<>>]
    ELSE LET message_buf == SubSeq(rx, 1, message_length)
         IN [cmd |-> IF Len(message_buf) >= 1
                     THEN IoApiCommand_try_from(message_buf[1],
                              split(from_utf8_lossy(Tail(message_buf)), 32))
                     ELSE None,
             rx |-> SubSeq(rx, message_length + 1, Len(rx))]

\* IoApiCommand::cmd_code
cmd_code(value) ==
    CASE value.cmd = "GetDeviceList" -> 2
      [] value.cmd = "GetDeviceConnectionLogs" -> 5
      [] value.cmd = "DisableDevice" -> 3
      [] value.cmd = "EnableDevice" -> 4

\* IoApiRequest::from counting only the id in the length prefix
IoApiRequest_from_id_length(value) ==
    LET result_bytes == IF value.cmd \in {"GetDeviceList", "GetDeviceConnectionLogs"}
                        THEN <<cmd_code(value)>>
                        ELSE <<cmd_code(value)>> \o value.arg
    IN u32_to_be_bytes(Len(result_bytes) - 1) \o result_bytes

\* impl From<IoApiCommand> for IoApiRequest
IoApiRequest_from(value) ==
    LET result_bytes == IF value.cmd \in {"GetDeviceList", "GetDeviceConnectionLogs"}
                        THEN <<cmd_code(value)>>
                        ELSE <<cmd_code(value)>> \o value.arg
        prefix_length == Len(result_bytes)
    IN u32_to_be_bytes(prefix_length) \o result_bytes

----------------------------------------------------------------------------
(* Display for Device and DeviceTracker.  The class, friendly name, type   *)
(* and description of a device are properties the OS does not report here. *)

Tabs(n) == [i \in 1..n |-> 9]
DisplayLine(level, label, value) == Tabs(level) \o label \o value \o <<10>>

RECURSIVE Device_fmt(_)
RECURSIVE SubDevices_fmt(_, _)

\* the texts of one device, over the iteration orders of its children
Device_fmt(device) ==
    LET level == device.tree_level
        head == DisplayLine(level, STR_Device_ID, device.device_id)
                \o DisplayLine(level, STR_Device_Service,
                       IF device.device_service = None THEN STR_None
                       ELSE device.device_service[1])
                \o DisplayLine(level, STR_Device_Class, STR_None)
                \o DisplayLine(level, STR_Device_Friendly_Name, STR_None)
                \o DisplayLine(level, STR_Device_Type, STR_None)
                \o DisplayLine(level, STR_Device_Description, STR_None)
    IN {head \o subs : subs \in UNION {SubDevices_fmt(device, ord)
                                       : ord \in SetToSeqs(DOMAIN device.devices)}}

SubDevices_fmt(device, ord) ==
    IF ord = <<>> THEN {<<>>}
    ELSE {Tabs(device.tree_level + 1) \o STR_Sub_device \o <<10>> \o sub \o <<10>> \o rest
          : sub \in Device_fmt(device.devices[Head(ord)]),
            rest \in SubDevices_fmt(device, Tail(ord))}

RECURSIVE Roots_fmt(_, _)
Roots_fmt(devs, ord) ==
    IF ord = <<>> THEN {<<>>}
    ELSE {d \o <<10>> \o rest : d \in Device_fmt(devs[Head(ord)]),
                                rest \in Roots_fmt(devs, Tail(ord))}

DeviceTracker_fmt(devs) == UNION {Roots_fmt(devs, ord) : ord \in SetToSeqs(DOMAIN devs)}

\* Display for Win32Error, for the errors set_device_state returns
Win32Error_fmt(result) ==
    IF result = "DeviceNotExist" THEN STR_DeviceNotExist ELSE STR_ConfigManagerError

----------------------------------------------------------------------------
(* Dispatching a request.  A dispatch state holds what one round of the    *)
(* for loop reads and writes: the connection's two byte streams, the OS    *)
(* enable flags, and the records of the last calls.                        *)

\* connection.write_all(bytes): the bytes reach a client that is there
write_all(st, bytes, open) ==
    IF open
    THEN [st EXCEPT !.tx = @ \o bytes, !.disp.wrote = bytes]
    ELSE [st EXCEPT !.disp.wrote = <<>>]

\* the arms EnableDevice / DisableDevice of "match cmd"
DispatchSetState(st, client, open, cmd, devs, state, failed_text, done_text) ==
    {LET payload == IF out.result # "Ok"
                    THEN convert_bytes_to_payload(failed_text \o Win32Error_fmt(out.result))
                    ELSE convert_bytes_to_payload(done_text)
         st1 == [st EXCEPT !.enabled = out.enabled,
                           !.op = [NoOp EXCEPT !.op = state, !.id = cmd.arg,
                                               !.result = out.result, !.target = out.target],
                           !.disp = [client |-> client, cmd |-> cmd.cmd, arg |-> cmd.arg,
                                     result |-> out.result, wrote |-> <<>>]]
     IN write_all(st1, convert_bytes_to_payload(payload), open)
     : out \in set_device_state(devs, st.enabled, cmd.arg, state)}

\* handle_ioapi_message(connection, message_length), which is also the text
\* of the for loop's body after the call: parse one body and answer it
handle_ioapi_message(st, client, open, message_length, devs, logs) ==
    LET parsed == parse_cmd_message(st.rx, message_length)
        st0 == [st EXCEPT !.rx = parsed.rx]
        cmd == parsed.cmd[1]
        st1 == [st0 EXCEPT !.disp = [client |-> client, cmd |-> cmd.cmd, arg |-> cmd.arg,
                                     result |-> "", wrote |-> <<>>]]
    IN IF parsed.cmd = None THEN {st0}
       ELSE CASE cmd.cmd = "GetDeviceList" ->
                   {write_all(st1, convert_bytes_to_payload(text), open)
                    : text \in DeviceTracker_fmt(devs)}
              [] cmd.cmd = "GetDeviceConnectionLogs" ->
                   LET core_payload ==
                           [i \in 1..LogPayloadPad |-> 0]
                           \o Concat([i \in 1..Len(logs) |-> logs[i] \o <<10>>])
                   IN {write_all(st1, convert_bytes_to_payload(core_payload), open)}
              [] cmd.cmd = "EnableDevice" ->
                   DispatchSetState(st0, client, open, cmd, devs, "Enable",
                                    STR_Enabling_failed, STR_Device_enabled)
              [] cmd.cmd = "DisableDevice" ->
                   DispatchSetState(st0, client, open, cmd, devs, "Disable",
                                    STR_Disabling_failed, STR_Device_disabled)

----------------------------------------------------------------------------
(* The clients and the callback thread *)

\* the request bodies a client sends: list, logs, enable "A", disable "A",
\* disable without an argument, an unknown opcode, and no body at all
ClientBodies == {<<2>>, <<5>>, <<4, 65>>, <<3, 65>>, <<3>>, <<9>>, <<>>}

\* a request as it is written to the socket
RequestFrame(body) == u32_to_be_bytes(Len(body)) \o body

\* The loop never blocks, and it looks at the sockets only in its accept
\* and service steps and at the two channels only in its poll step.  What a
\* client or the callback thread does at any other moment is seen at the
\* loop's next look, exactly as if it had been done just before it.  So the
\* clients act at the top of the loop and the thread acts before the poll.
LoopRuns == phase = "running" /\ pc = "accept"
ThreadRuns == phase = "running" /\ pc = "poll" /\ finish_chan.open

\* the cuts at which the network may split what a client has written
PartialCuts == {2, 4}

\* a client connects; the clients connect in the order of their numbers
ClientConnect ==
    /\ LoopRuns
    /\ \E c \in DOMAIN sockets :
          /\ sockets[c].state = "new"
          /\ \A b \in DOMAIN sockets : b < c => sockets[b].state # "new"
          /\ sockets' = [sockets EXCEPT ![c].state = "connected"]
          /\ backlog' = Append(backlog, c)
    /\ UNCHANGED tracker_vars
    /\ UNCHANGED <<pc, ioapi_connections, index, closed_connections,
                   device_connection_logs, processed_events, event_chan, finish_chan,
                   last_dispatch>>
    /\ UNCHANGED whitelist_vars

\* a client writes one request to its socket
ClientSend ==
    /\ LoopRuns
    /\ \E c \in DOMAIN sockets, body \in ClientBodies :
          /\ sockets[c].state = "connected"
          /\ Len(sockets[c].sent) < MaxFrames
          /\ sockets[c].wire = <<>>
          /\ sockets' = [sockets EXCEPT ![c].sent = Append(@, body),
                                        ![c].wire = @ \o RequestFrame(body)]
    /\ UNCHANGED tracker_vars
    /\ UNCHANGED <<pc, backlog, ioapi_connections, index, closed_connections,
                   device_connection_logs, processed_events, event_chan, finish_chan,
                   last_dispatch>>
    /\ UNCHANGED whitelist_vars

\* the network hands the bytes a client has written to the daemon's socket,
\* all of them or the first few
Deliver ==
    /\ LoopRuns
    /\ \E c \in DOMAIN sockets :
       \E k \in {Len(sockets[c].wire)} \cup {x \in PartialCuts : x < Len(sockets[c].wire)} :
          /\ k > 0
          /\ sockets' = [sockets EXCEPT ![c].rx = @ \o SubSeq(sockets[c].wire, 1, k),
                                        ![c].wire = SubSeq(@, k + 1, Len(@))]
    /\ UNCHANGED tracker_vars
    /\ UNCHANGED <<pc, backlog, ioapi_connections, index, closed_connections,
                   device_connection_logs, processed_events, event_chan, finish_chan,
                   last_dispatch>>
    /\ UNCHANGED whitelist_vars

\* a client closes its socket once everything it wrote has been delivered
ClientClose ==
    /\ LoopRuns
    /\ \E c \in DOMAIN sockets :
          /\ sockets[c].state = "connected"
          /\ sockets[c].wire = <<>>
          /\ sockets' = [sockets EXCEPT ![c].state = "peer_closed"]
    /\ UNCHANGED tracker_vars
    /\ UNCHANGED <<pc, backlog, ioapi_connections, index, closed_connections,
                   device_connection_logs, processed_events, event_chan, finish_chan,
                   last_dispatch>>
    /\ UNCHANGED whitelist_vars

\* the devices that come and go while the loop runs
LoopDevIds == {<<64 + i>> : i \in 1..MaxLoopBoot}

\* the device interface path Windows reports for a device instance
DevicePath(d) == STR_path_prefix \o ToLower(d) \o STR_guid_suffix

\* a callback that takes the device out of the forest itself
HotplugNotify_touches_forest ==
    /\ ThreadRuns
    /\ Len(processed_events) + Len(event_chan) < MaxEvents
    /\ \E kind \in {"Connected", "Disconnected"}, d \in LoopDevIds \cup {<<90>>} :
          /\ event_chan' = Append(event_chan, [kind |-> kind, device_path |-> DevicePath(d)])
          /\ \E out \in remove_device_by_id(devices, d) : devices' = out.devices
    /\ UNCHANGED <<phase, os_enabled, os_parent, last_op>>
    /\ UNCHANGED <<pc, sockets, backlog, ioapi_connections, index, closed_connections,
                   device_connection_logs, processed_events, finish_chan, last_dispatch>>
    /\ UNCHANGED whitelist_vars

\* window_proc on the callback thread: DBT_DEVICEARRIVAL and
\* DBT_DEVICEREMOVECOMPLETE are sent into the event channel with the sender
\* found in EVENT_SENDER; with no sender there the notification is dropped
HotplugNotify ==
    /\ ThreadRuns
    /\ Len(processed_events) + Len(event_chan) + EVENT_SENDER.discarded < MaxEvents
    /\ \E kind \in {"Connected", "Disconnected"}, d \in LoopDevIds \cup {<<90>>} :
          IF EVENT_SENDER.sender # None
          THEN /\ event_chan' = Append(event_chan,
                                       [kind |-> kind, device_path |-> DevicePath(d)])
               /\ EVENT_SENDER' = EVENT_SENDER
          ELSE /\ event_chan' = event_chan
               /\ EVENT_SENDER' = [EVENT_SENDER EXCEPT !.discarded = @ + 1]
    /\ UNCHANGED tracker_vars
    /\ UNCHANGED <<pc, sockets, backlog, ioapi_connections, index, closed_connections,
                   device_connection_logs, processed_events, finish_chan, last_dispatch>>
    /\ UNCHANGED <<entry, last_apply, console>>

\* the callback thread returns: after a failed OS call it first sends the
\* error into the finish channel; when GetMessageW returns 0 it sends
\* nothing.  Either way its sender is dropped.
ThreadFinish ==
    /\ ThreadRuns
    /\ \E result \in {"Ok", "Win32Error"} :
          finish_chan' = [queue |-> IF result = "Ok" THEN <<>> ELSE <<result>>,
                          open |-> FALSE]
    /\ UNCHANGED tracker_vars
    /\ UNCHANGED <<pc, sockets, backlog, ioapi_connections, index, closed_connections,
                   device_connection_logs, processed_events, event_chan, last_dispatch>>
    /\ UNCHANGED whitelist_vars

----------------------------------------------------------------------------
(* The event loop of main() *)

\* handle_new_ioapi_connection: accept until the listener has nothing more;
\* an accept() that fails ends the round before anything is accepted
AcceptConnections ==
    /\ phase = "running"
    /\ pc = "accept"
    /\ \E accept_ok \in BOOLEAN :
          IF accept_ok
          THEN /\ ioapi_connections' = ioapi_connections \o backlog
               /\ backlog' = <<>>
          ELSE UNCHANGED <<ioapi_connections, backlog>>
    /\ closed_connections' = <<>>
    /\ index' = 0
    /\ pc' = "service"
    /\ UNCHANGED tracker_vars
    /\ UNCHANGED <<sockets, device_connection_logs, processed_events, event_chan,
                   finish_chan, last_dispatch>>
    /\ UNCHANGED whitelist_vars

\* one round of "for (index, connection) in ioapi_connections.iter_mut()":
\* read the length prefix; on Ok call handle_ioapi_message for the body
\* (line 95, with the connection as its first argument) and then parse and
\* dispatch a body of the same length once more (lines 97-167)
ServiceConnection ==
    /\ phase = "running"
    /\ pc = "service"
    /\ index < Len(ioapi_connections)
    /\ LET c == ioapi_connections[index + 1]
           sock == sockets[c]
           open == sock.state = "connected"
       IN IF Len(sock.rx) >= 4
          THEN LET message_length == u32_from_be_bytes(SubSeq(sock.rx, 1, 4))
                   st == [rx |-> SubSeq(sock.rx, 5, Len(sock.rx)), tx |-> sock.tx,
                          enabled |-> os_enabled, op |-> last_op, disp |-> NoDispatch]
               IN \E st1 \in handle_ioapi_message(st, c, open, message_length,
                                                  devices, device_connection_logs) :
                  \E st2 \in handle_ioapi_message(st1, c, open, message_length,
                                                  devices, device_connection_logs) :
                     /\ sockets' = [sockets EXCEPT ![c].rx = st2.rx, ![c].tx = st2.tx]
                     /\ os_enabled' = st2.enabled
                     /\ last_op' = st2.op
                     /\ last_dispatch' = st2.disp
                     /\ closed_connections' = closed_connections
          ELSE IF open
          THEN \* WouldBlock: the bytes read so far go with length_buf
               /\ sockets' = [sockets EXCEPT ![c].rx = <<>>]
               /\ last_dispatch' = NoDispatch
               /\ UNCHANGED <<os_enabled, last_op, closed_connections>>
          ELSE \* end of stream: an error other than WouldBlock
               /\ sockets' = [sockets EXCEPT ![c].rx = <<>>]
               /\ closed_connections' = Append(closed_connections, index)
               /\ last_dispatch' = NoDispatch
               /\ UNCHANGED <<os_enabled, last_op>>
    /\ index' = index + 1
    /\ UNCHANGED <<phase, devices, os_parent>>
    /\ UNCHANGED <<pc, backlog, ioapi_connections, device_connection_logs,
                   processed_events, event_chan, finish_chan>>
    /\ UNCHANGED whitelist_vars

\* Vec::remove(index) for each index of closed_connections in turn; an index
\* past the end panics
RECURSIVE RemoveClosed(_, _)
RemoveClosed(conns, closed) ==
    IF closed = <<>> THEN [panic |-> FALSE, conns |-> conns]
    ELSE IF Head(closed) >= Len(conns) THEN [panic |-> TRUE, conns |-> conns]
    ELSE RemoveClosed(SubSeq(conns, 1, Head(closed))
                      \o SubSeq(conns, Head(closed) + 2, Len(conns)),
                      Tail(closed))

\* "for index in closed_connections { ioapi_connections.remove(index); }"
CloseConnections ==
    /\ phase = "running"
    /\ pc = "service"
    /\ index >= Len(ioapi_connections)
    /\ LET out == RemoveClosed(ioapi_connections, closed_connections)
       IN /\ ioapi_connections' = out.conns
          /\ pc' = IF out.panic THEN "panicked" ELSE "poll"
    /\ UNCHANGED tracker_vars
    /\ UNCHANGED <<sockets, backlog, index, closed_connections, device_connection_logs,
                   processed_events, event_chan, finish_chan, last_dispatch>>
    /\ UNCHANGED whitelist_vars

\* device_path_to_device_id cutting at the first '#' instead of the last
device_path_to_device_id_first_hash(device_path) ==
    LET stripped == IF /\ Len(device_path) >= Len(STR_path_prefix)
                       /\ SubSeq(device_path, 1, Len(STR_path_prefix)) = STR_path_prefix
                    THEN SubSeq(device_path, Len(STR_path_prefix) + 1, Len(device_path))
                    ELSE device_path
        hashes == {i \in 1..Len(stripped) : stripped[i] = 35}
        path == IF hashes = {} THEN stripped
                ELSE SubSeq(stripped, 1, (CHOOSE x \in hashes : \A y \in hashes : x <= y) - 1)
        instance_id == [i \in 1..Len(path) |-> IF path[i] = 35 THEN 92 ELSE path[i]]
    IN ToUpper(instance_id)

\* device_path_to_device_id: drop the prefix, drop the GUID after the last
\* '#', turn every other '#' into '\', upper-case
device_path_to_device_id(device_path) ==
    LET stripped == IF /\ Len(device_path) >= Len(STR_path_prefix)
                       /\ SubSeq(device_path, 1, Len(STR_path_prefix)) = STR_path_prefix
                    THEN SubSeq(device_path, Len(STR_path_prefix) + 1, Len(device_path))
                    ELSE device_path
        hashes == {i \in 1..Len(stripped) : stripped[i] = 35}
        path == IF hashes = {} THEN stripped
                ELSE SubSeq(stripped, 1, (CHOOSE x \in hashes : \A y \in hashes : y <= x) - 1)
        instance_id == [i \in 1..Len(path) |-> IF path[i] = 35 THEN 92 ELSE path[i]]
    IN ToUpper(instance_id)

\* UsbConnectionCallbacksHandle::poll_events: a message of the finish
\* channel first (an empty or disconnected finish channel is passed over),
\* then the event channel, whose sender lives in a static and is never
\* dropped
poll_events_events_first ==
    IF event_chan # <<>> THEN "Event"
    ELSE IF finish_chan.queue # <<>>
         THEN IF Head(finish_chan.queue) = "Ok" THEN "ThreadFinished" ELSE "Win32Error"
         ELSE "Empty"

poll_events ==
    IF finish_chan.queue # <<>>
    THEN IF Head(finish_chan.queue) = "Ok" THEN "ThreadFinished" ELSE "Win32Error"
    ELSE IF event_chan = <<>> THEN "Empty" ELSE "Event"

\* "match callback_handle.poll_events()"
PollEvents ==
    /\ phase = "running"
    /\ pc = "poll"
    /\ CASE poll_events = "ThreadFinished" ->
              /\ finish_chan' = [finish_chan EXCEPT !.queue = Tail(@)]
              /\ pc' = "exited"
              /\ console' = "USB connection callback thread has finished"
              /\ UNCHANGED <<devices, last_op, device_connection_logs, processed_events,
                             event_chan>>
         [] poll_events = "Win32Error" ->
              /\ finish_chan' = [finish_chan EXCEPT !.queue = Tail(@)]
              /\ pc' = "failed"
              /\ UNCHANGED <<devices, last_op, device_connection_logs, processed_events,
                             event_chan, console>>
         [] poll_events = "Empty" ->
              /\ pc' = "accept"
              /\ UNCHANGED <<devices, last_op, device_connection_logs, processed_events,
                             event_chan, finish_chan, console>>
         [] poll_events = "Event" ->
              LET event == Head(event_chan)
                  device_id == device_path_to_device_id(event.device_path)
              IN /\ event_chan' = Tail(event_chan)
                 /\ processed_events' = Append(processed_events, event)
                 /\ pc' = "accept"
                 /\ finish_chan' = finish_chan
                 /\ IF event.kind = "Connected"
                    THEN /\ device_connection_logs' =
                               Append(device_connection_logs, STR_connected \o device_id)
                         /\ \E os_ok \in BOOLEAN :
                            \E out \in insert_device_by_id(devices, device_id, os_ok, os_parent) :
                               /\ devices' = out.devices
                               /\ last_op' = [NoOp EXCEPT !.op = "insert", !.id = out.id,
                                                          !.result = out.result]
                               /\ console' = IF out.result = "Ok"
                                             THEN "- Device inserted into tracker"
                                             ELSE "- Error inserting device into tracker: "
                    ELSE /\ device_connection_logs' =
                               Append(device_connection_logs, STR_disconnected \o device_id)
                         /\ \E out \in remove_device_by_id(devices, device_id) :
                               /\ devices' = out.devices
                               /\ last_op' = [NoOp EXCEPT !.op = "remove", !.id = device_id,
                                                          !.result = out.result]
                               /\ console' = IF out.result = "None"
                                             THEN "- Device removed from tracker"
                                             ELSE "- Error removing device from tracker: "
    /\ UNCHANGED <<phase, os_enabled, os_parent>>
    /\ UNCHANGED <<sockets, backlog, ioapi_connections, index, closed_connections,
                   last_dispatch>>
    /\ UNCHANGED <<entry, last_apply, EVENT_SENDER>>

\* main() when it enters the loop: load() has returned a forest, in the
\* well-formed world, with MaxLoopBoot devices present, the first listed by
\* the USB enumerator and the others by the HID enumerator
InitLoop ==
    /\ phase = "running"
    /\ os_enabled = [d \in AllIds |-> TRUE]
    /\ os_parent \in Worlds
    /\ ChainWorld
    /\ \E out \in load(LoopDevIds, {<<65>>}, TRUE, os_parent) :
          /\ out.result = "Ok"
          /\ devices = out.devices
    /\ last_op = [NoOp EXCEPT !.op = "load", !.result = "Ok"]
    /\ pc = "accept"
    /\ sockets = [c \in Clients |-> NewSocket]
    /\ backlog = <<>>
    /\ ioapi_connections = <<>>
    /\ index = 0
    /\ closed_connections = <<>>
    /\ device_connection_logs = <<>>
    /\ processed_events = <<>>
    /\ event_chan = <<>>
    /\ finish_chan = [queue |-> <<>>, open |-> TRUE]
    /\ last_dispatch = NoDispatch
    /\ WhitelistCreated
    /\ EVENT_SENDER = [sender |-> Some("event_sender"), installs |-> 1, discarded |-> 0]
    /\ console = ""

NextLoop ==
    \/ ClientConnect
    \/ ClientSend
    \/ Deliver
    \/ ClientClose
    \/ HotplugNotify
    \/ ThreadFinish
    \/ AcceptConnections
    \/ ServiceConnection
    \/ CloseConnections
    \/ PollEvents

SpecLoop == InitLoop /\ [][NextLoop]_vars

----------------------------------------------------------------------------
(* The conversions on their own: device_path_to_device_id, a command made *)
(* into a request and parsed back, and a command made of text tokens       *)

\* "USB#VID_046D&PID_C52B#5&2752457f&0&2#{a5dcbf10-6530-11d2-901f-00c04fb951ed}"
STR_example_path ==
    <<85, 83, 66, 35, 86, 73, 68, 95, 48, 52, 54, 68, 38, 80, 73, 68, 95,
      67, 53, 50, 66, 35, 53, 38, 50, 55, 53, 50, 52, 53, 55, 102, 38, 48,
      38, 50, 35, 123, 97, 53, 100, 99, 98, 102, 49, 48, 45, 54, 53, 51, 48,
      45, 49, 49, 100, 50, 45, 57, 48, 49, 102, 45, 48, 48, 99, 48, 52, 102,
      98, 57, 53, 49, 101, 100, 125>>

\* the paths it is given: the example with and without the \\?\ marker, and
\* every text of up to MaxPathLen characters out of a, B, # and \, with the
\* marker, without it, and with the marker not at the start
PathInputs ==
    LET texts == UNION {[1..n -> {97, 66, 35, 92}] : n \in 0..MaxPathLen}
    IN {STR_example_path, STR_path_prefix \o STR_example_path}
       \cup texts
       \cup {STR_path_prefix \o t : t \in texts}
       \cup {<<97>> \o STR_path_prefix \o t : t \in texts}

\* device_path_to_device_id(device_path), as the loop calls it for an event
TranslatePath ==
    /\ phase = "running"
    /\ \E device_path \in PathInputs :
          last_op' = [NoOp EXCEPT !.op = "device_path_to_device_id", !.id = device_path,
                                 !.target = device_path_to_device_id(device_path),
                                 !.result = "Ok"]
    /\ UNCHANGED <<phase, devices, os_enabled, os_parent>>
    /\ UNCHANGED loop_vars
    /\ UNCHANGED whitelist_vars

SpecPath == InitLoop /\ [][TranslatePath]_vars

\* the ids a command can carry: every str of up to MaxIdLen bytes out of
\* A, a, a backslash, a space and the two bytes of U+00E9
RequestIds ==
    {id \in UNION {[1..n -> {65, 97, 92, 32, 195, 169}] : n \in 0..MaxIdLen} :
        from_utf8_ok(id)}

\* a client makes a request of a command and writes it; the daemon reads the
\* length and calls parse_cmd_message
SendRequest ==
    /\ phase = "running"
    /\ pc = "accept"
    /\ \E value \in [cmd : {"GetDeviceList", "GetDeviceConnectionLogs"}, arg : {<<>>}]
                    \cup [cmd : {"DisableDevice", "EnableDevice"}, arg : RequestIds] :
          LET request == IoApiRequest_from(value)
              message_length == u32_from_be_bytes(SubSeq(request, 1, 4))
              parsed == parse_cmd_message(SubSeq(request, 5, Len(request)), message_length)
          IN /\ sockets' = [sockets EXCEPT ![1].sent = <<value>>, ![1].tx = request]
             /\ last_dispatch' =
                   IF parsed.cmd = None
                   THEN [NoDispatch EXCEPT !.client = 1, !.result = "None"]
                   ELSE [NoDispatch EXCEPT !.client = 1, !.cmd = parsed.cmd[1].cmd,
                                           !.arg = parsed.cmd[1].arg, !.result = "Some",
                                           !.wrote = parsed.rx]
    /\ UNCHANGED tracker_vars
    /\ UNCHANGED <<pc, backlog, ioapi_connections, index, closed_connections,
                   device_connection_logs, processed_events, event_chan, finish_chan>>
    /\ UNCHANGED whitelist_vars

SpecRequest == InitLoop /\ [][SendRequest]_vars

\* impl TryFrom<&[&str]> for IoApiCommand; an index past the end of the
\* slice is a panic
IoApiCommand_try_from_tokens(cmd_tokens) ==
    IF Len(cmd_tokens) < 1 THEN [result |-> "panic", cmd |-> "none", arg |-> <<>>]
    ELSE CASE cmd_tokens[1] = <<108, 105, 115, 116>> ->                 \* "list"
                [result |-> "Ok", cmd |-> "GetDeviceList", arg |-> <<>>]
           [] cmd_tokens[1] = <<100, 105, 115, 97, 98, 108, 101>> ->              \* "disable"
                IF Len(cmd_tokens) < 2 THEN [result |-> "panic", cmd |-> "none", arg |-> <<>>]
                ELSE [result |-> "Ok", cmd |-> "DisableDevice", arg |-> cmd_tokens[2]]
           [] cmd_tokens[1] = <<101, 110, 97, 98, 108, 101>> ->               \* "enable"
                IF Len(cmd_tokens) < 2 THEN [result |-> "panic", cmd |-> "none", arg |-> <<>>]
                ELSE [result |-> "Ok", cmd |-> "EnableDevice", arg |-> cmd_tokens[2]]
           [] cmd_tokens[1] = <<108, 111, 103, 115>> ->                 \* "logs"
                [result |-> "Ok", cmd |-> "GetDeviceConnectionLogs", arg |-> <<>>]
           [] OTHER -> [result |-> "Err", cmd |-> "none", arg |-> <<>>]

\* the names the shell documents
DocumentedNames ==
    [get_device_list |->
         <<103, 101, 116, 95, 100, 101, 118, 105, 99, 101, 95, 108, 105, 115, 116>>,
     get_device_connection_logs |->
         <<103, 101, 116, 95, 100, 101, 118, 105, 99, 101, 95, 99, 111, 110,
         110, 101, 99, 116, 105, 111, 110, 95, 108, 111, 103, 115>>,
     disable_device |->
         <<100, 105, 115, 97, 98, 108, 101, 95, 100, 101, 118, 105, 99, 101>>,
     enable_device |->
         <<101, 110, 97, 98, 108, 101, 95, 100, 101, 118, 105, 99, 101>>]

\* the shell makes a command of the tokens of a line: a first token out of
\* the names the parser matches, the names the shell documents, and two that
\* are neither, then up to MaxTokens - 1 more
ParseTokens ==
    /\ phase = "running"
    /\ pc = "accept"
    /\ \E cmd_tokens \in
            UNION {[1..n -> {<<65>>, <<92, 97>>, <<>>, <<108, 105, 115, 116>>, <<100, 105, 115, 97, 98, 108, 101>>,
                             <<101, 110, 97, 98, 108, 101>>, <<108, 111, 103, 115>>, DocumentedNames.get_device_list,
                             DocumentedNames.get_device_connection_logs, DocumentedNames.disable_device,
                             DocumentedNames.enable_device}] : n \in 0..MaxTokens} :
          LET parsed == IoApiCommand_try_from_tokens(cmd_tokens)
          IN /\ sockets' = [sockets EXCEPT ![1].sent = cmd_tokens]
             /\ last_dispatch' = [NoDispatch EXCEPT !.client = 1, !.cmd = parsed.cmd,
                                                     !.arg = parsed.arg,
                                                     !.result = parsed.result]
    /\ UNCHANGED tracker_vars
    /\ UNCHANGED <<pc, backlog, ioapi_connections, index, closed_connections,
                   device_connection_logs, processed_events, event_chan, finish_chan>>
    /\ UNCHANGED whitelist_vars

SpecTokens == InitLoop /\ [][ParseTokens]_vars

\* the loop and the hotplug thread, with a client that connects and closes and
\* sends nothing; main() never blocks (the listener and the channels are
\* polled), so a step of its loop that can be taken is eventually taken
LoopStep ==
    \/ AcceptConnections
    \/ ServiceConnection
    \/ CloseConnections
    \/ PollEvents

NextHotplug ==
    \/ ClientConnect
    \/ ClientClose
    \/ HotplugNotify
    \/ ThreadFinish
    \/ LoopStep

SpecHotplug == InitLoop /\ [][NextHotplug]_vars /\ WF_vars(LoopStep)

\* setup_connection_callbacks leaving the slot as it is
setup_connection_callbacks_no_sender ==
    /\ phase = "running"
    /\ pc = "idle"
    /\ pc' = "accept"
    /\ UNCHANGED tracker_vars
    /\ UNCHANGED <<sockets, backlog, ioapi_connections, index, closed_connections,
                   device_connection_logs, processed_events, event_chan, finish_chan,
                   last_dispatch>>
    /\ UNCHANGED whitelist_vars

\* UsbConnectionCallbacksHandle::setup_connection_callbacks, called once by
\* main() before the loop: the two channels are made, the event channel's
\* sender is put into EVENT_SENDER (nothing has held the mutex before, so the
\* lock is not poisoned), and then the thread is spawned
setup_connection_callbacks ==
    /\ phase = "running"
    /\ pc = "idle"
    /\ EVENT_SENDER' = [EVENT_SENDER EXCEPT !.sender = Some("event_sender"),
                                            !.installs = @ + 1]
    /\ pc' = "accept"
    /\ UNCHANGED tracker_vars
    /\ UNCHANGED <<sockets, backlog, ioapi_connections, index, closed_connections,
                   device_connection_logs, processed_events, event_chan, finish_chan,
                   last_dispatch>>
    /\ UNCHANGED <<entry, last_apply, console>>

\* main() from the call of setup_connection_callbacks on
InitSetup ==
    /\ InitWhitelist
    /\ ChainWorld

NextSetup ==
    \/ setup_connection_callbacks
    \/ NextHotplug

SpecSetup == InitSetup /\ [][NextSetup]_vars

\* poll_events on every content of its two channels: the completion channel
\* empty or holding a clean or an error outcome, its sender alive or dropped,
\* and up to MaxPending events waiting
HotplugEvents ==
    [kind : {"Connected", "Disconnected"},
     device_path : {DevicePath(d) : d \in LoopDevIds \cup {<<90>>}}]

PendingEvents ==
    UNION {[1..n -> HotplugEvents] : n \in 0..MaxPending}

InitPoll ==
    /\ phase = "running"
    /\ os_enabled = [d \in AllIds |-> TRUE]
    /\ os_parent \in Worlds
    /\ ChainWorld
    /\ \E out \in load(LoopDevIds, {<<65>>}, TRUE, os_parent) :
          /\ out.result = "Ok"
          /\ devices = out.devices
    /\ last_op = [NoOp EXCEPT !.op = "load", !.result = "Ok"]
    /\ pc = "poll"
    /\ sockets = [c \in Clients |-> NewSocket]
    /\ backlog = <<>>
    /\ ioapi_connections = <<>>
    /\ index = 0
    /\ closed_connections = <<>>
    /\ device_connection_logs = <<>>
    /\ processed_events = <<>>
    /\ event_chan \in PendingEvents
    /\ finish_chan \in [queue : {<<>>, <<"Ok">>, <<"Win32Error">>}, open : BOOLEAN]
    /\ last_dispatch = NoDispatch
    /\ WhitelistCreated
    /\ EVENT_SENDER = [sender |-> Some("event_sender"), installs |-> 1, discarded |-> 0]
    /\ console = ""

SpecPoll == InitPoll /\ [][PollEvents]_vars

\* the loop with several clients that connect and close and send nothing
ClosingClients == 1..MaxClosing

InitConns ==
    /\ phase = "running"
    /\ os_enabled = [d \in AllIds |-> TRUE]
    /\ os_parent \in Worlds
    /\ ChainWorld
    /\ \E out \in load(LoopDevIds, {<<65>>}, TRUE, os_parent) :
          /\ out.result = "Ok"
          /\ devices = out.devices
    /\ last_op = [NoOp EXCEPT !.op = "load", !.result = "Ok"]
    /\ pc = "accept"
    /\ sockets = [c \in ClosingClients |-> NewSocket]
    /\ backlog = <<>>
    /\ ioapi_connections = <<>>
    /\ index = 0
    /\ closed_connections = <<>>
    /\ device_connection_logs = <<>>
    /\ processed_events = <<>>
    /\ event_chan = <<>>
    /\ finish_chan = [queue |-> <<>>, open |-> TRUE]
    /\ last_dispatch = NoDispatch
    /\ WhitelistCreated
    /\ EVENT_SENDER = [sender |-> Some("event_sender"), installs |-> 1, discarded |-> 0]
    /\ console = ""

NextConns ==
    \/ ClientConnect
    \/ ClientClose
    \/ AcceptConnections
    \/ ServiceConnection
    \/ CloseConnections
    \/ PollEvents

SpecConns == InitConns /\ [][NextConns]_vars

----------------------------------------------------------------------------
(* Properties of the topology *)

ParentPath(p) == SubSeq(p, 1, Len(p) - 1)
IsHubService(service) == service \in {Some(STR_usbhub3), Some(STR_usbhub)}
InsertedOk == last_op.op = "insert" /\ last_op.result = "Ok"

\* C1: once load() has returned, and after every insert_device_by_id and
\* remove_device_by_id, no id repeats along a path of the forest, every root
\* has tree_level 0 and every other device has its parent's tree_level + 1.
C1_TreeLevelsConsistent ==
    phase = "running" =>
        \A p \in AllPaths(devices) :
            /\ \A i, j \in 1..Len(p) : i # j => p[i] # p[j]
            /\ Len(p) = 1 => NodeAt(devices, p).tree_level = 0
            /\ Len(p) > 1 =>
                 NodeAt(devices, p).tree_level = NodeAt(devices, ParentPath(p)).tree_level + 1

\* C2: when a root C declares the parent P, P is not in the forest, and
\* insert_device_by_id(P) then succeeds, C is afterwards a child of P with
\* P's tree_level + 1 and is no longer a root, wherever P was placed.
C2_OrphanReparented ==
    [][\A c \in DOMAIN devices :
          LET P == last_op'.id
          IN (/\ last_op'.op = "insert" /\ last_op'.result = "Ok"
              /\ devices[c].parent_id = Some(P)
              /\ c # P
              /\ P \notin IdsIn(devices))
             => /\ c \notin DOMAIN devices'
                /\ \E p \in AllPaths(devices') :
                      /\ p[Len(p)] = P
                      /\ c \in DOMAIN NodeAt(devices', p).devices
                      /\ NodeAt(devices', p).devices[c].tree_level =
                            NodeAt(devices', p).tree_level + 1]_vars

\* C3: remove_device_by_id(id) of an id in the forest takes out one node
\* with that id and everything below it, returns Some, leaves every other
\* device as it was, and afterwards neither the id nor any id of the removed
\* subtree is in the forest; for an id not in the forest it returns None and
\* changes nothing.
C3_RemoveTakesSubtree ==
    [][last_op'.op = "remove" =>
          LET id == last_op'.id
          IN IF id \in IdsIn(devices)
             THEN /\ last_op'.result = "Some"
                  /\ \E p \in AllPaths(devices) :
                        /\ p[Len(p)] = id
                        /\ devices' = RemoveAt(devices, p)
                        /\ IdsIn(devices') \cap
                             ({id} \cup IdsIn(NodeAt(devices, p).devices)) = {}
             ELSE /\ last_op'.result = "None"
                  /\ devices' = devices]_vars

\* C4: no DeviceId occurs twice in the forest, roots and descendants counted.
C4_DeviceIdsUnique ==
    Cardinality(AllPaths(devices)) = Cardinality(IdsIn(devices))

\* C5: no device of the forest has a hub driver (usbhub, usbhub3) as its
\* service, and insert_device_by_id of a hub that the OS can locate returns
\* the hub-filtered error, never Ok.
C5_HubsFilteredOut ==
    /\ \A p \in AllPaths(devices) : ~IsHubService(NodeAt(devices, p).device_service)
    /\ (last_op.op = "insert" /\ last_op.id \in HubIds)
          => last_op.result \in {"DeviceFilteredNotUsb", "Win32Error"}

C5_Witness ==
    /\ last_op.op = "insert"
    /\ last_op.id = <<90>>
    /\ last_op.result = "DeviceFilteredNotUsb"
    /\ devices # EmptyMap

\* C6: when insert_device_by_id returns Ok, a device with that id is in the
\* forest, whatever parent the device declares.
C6_InsertedDevicePresent ==
    InsertedOk => last_op.id \in IdsIn(devices)

\* C7: set_device_state(id, state) returns DeviceNotExist exactly when the id
\* is nowhere in the forest and then changes nothing; otherwise it calls the
\* state change on that device's instance and on no other, and returns the
\* call's result.
C7_SetStateFindsDevice ==
    [][last_op'.op \in {"Enable", "Disable"} =>
          LET id == last_op'.id
          IN IF id \notin IdsIn(devices)
             THEN /\ last_op'.result = "DeviceNotExist"
                  /\ os_enabled' = os_enabled
             ELSE /\ last_op'.target = id
                  /\ last_op'.result \in {"Ok", "ConfigManagerError"}
                  /\ last_op'.result = "Ok" =>
                        os_enabled' = [os_enabled EXCEPT ![id] = (last_op'.op = "Enable")]
                  /\ last_op'.result # "Ok" => os_enabled' = os_enabled]_vars

C7_Witness ==
    /\ last_op.op = "Disable"
    /\ last_op.result = "Ok"
    /\ last_op.id \in IdsIn(devices)
    /\ last_op.id \notin DOMAIN devices
    /\ ~os_enabled[last_op.id]

----------------------------------------------------------------------------
(* Properties of the IOAPI *)

Range(f) == {f[i] : i \in DOMAIN f}

\* a request body the protocol has no command for: no body, an opcode that
\* is none of 2..5, or Disable/Enable without an argument
MalformedBody(body) ==
    \/ body = <<>>
    \/ body[1] \notin {2, 3, 4, 5}
    \/ body[1] \in {3, 4} /\ Len(body) = 1

\* bytes is one frame whose payload is text
IsFrameOf(bytes, text) ==
    /\ Len(bytes) = Len(text) + 4
    /\ u32_from_be_bytes(SubSeq(bytes, 1, 4)) = Len(text)
    /\ SubSeq(bytes, 5, Len(bytes)) = text

\* C8: a client that has sent a malformed request body stays among the open
\* connections; as long as all it has sent is malformed, nothing is written
\* to it; and when it has sent a malformed body and then a well-formed one
\* and the daemon has read them all, a response has been written.
C8_MalformedRequestIgnored ==
    \A c \in Clients :
        LET sock == sockets[c]
            bad == {i \in 1..Len(sock.sent) : MalformedBody(sock.sent[i])}
        IN /\ (bad # {} /\ sock.state = "connected" /\ c \notin Range(backlog))
                 => c \in Range(ioapi_connections)
           /\ (bad # {} /\ bad = 1..Len(sock.sent)) => sock.tx = <<>>
           /\ (/\ bad = {1} /\ Len(sock.sent) = 2
               /\ sock.state = "connected" /\ sock.wire = <<>> /\ sock.rx = <<>>
               /\ c \in Range(ioapi_connections))
                 => sock.tx # <<>>

\* the message an Enable/Disable command is answered with
StateMessage(cmd, result) ==
    IF result = "Ok"
    THEN (IF cmd = "EnableDevice" THEN STR_Device_enabled ELSE STR_Device_disabled)
    ELSE (IF cmd = "EnableDevice" THEN STR_Enabling_failed ELSE STR_Disabling_failed)
         \o (IF result = "DeviceNotExist" THEN STR_DeviceNotExist ELSE STR_ConfigManagerError)

\* C9: the bytes written for an EnableDevice or DisableDevice command are one
\* frame, the 4-byte big-endian length N and then the N bytes of the success
\* or failure message.
C9_StateResponseIsOneFrame ==
    (last_dispatch.cmd \in {"EnableDevice", "DisableDevice"} /\ last_dispatch.wrote # <<>>)
        => IsFrameOf(last_dispatch.wrote,
                     StateMessage(last_dispatch.cmd, last_dispatch.result))

\* the log line of a hotplug event
LogLine(event) ==
    (IF event.kind = "Connected" THEN STR_connected ELSE STR_disconnected)
    \o device_path_to_device_id(event.device_path)

RECURSIVE JoinLines(_)
JoinLines(lines) ==
    IF lines = <<>> THEN <<>>
    ELSE IF Len(lines) = 1 THEN lines[1]
    ELSE lines[1] \o <<10>> \o JoinLines(Tail(lines))

\* C10: the payload written for a GetDeviceConnectionLogs command is the log
\* lines of the hotplug events taken so far, one per event in the order they
\* were taken, joined by newlines, and nothing else.
C10_LogsPayloadIsJoinedLines ==
    [][(/\ index' = index + 1
        /\ last_dispatch'.cmd = "GetDeviceConnectionLogs"
        /\ last_dispatch'.wrote # <<>>)
         => IsFrameOf(last_dispatch'.wrote,
                      JoinLines([i \in 1..Len(processed_events) |->
                                    LogLine(processed_events[i])]))]_vars

\* the number of whole frames a byte stream consists of, or -1 when it is
\* not a sequence of whole frames
RECURSIVE FrameCount(_)
FrameCount(bytes) ==
    IF bytes = <<>> THEN 0
    ELSE IF Len(bytes) < 4 THEN -1
    ELSE LET n == u32_from_be_bytes(SubSeq(bytes, 1, 4))
         IN IF Len(bytes) < 4 + n THEN -1
            ELSE LET rest == FrameCount(SubSeq(bytes, 5 + n, Len(bytes)))
                 IN IF rest < 0 THEN -1 ELSE 1 + rest

\* C11: when the daemon has read everything a connected client has sent and
\* all of it was well-formed requests, the bytes written to that client are
\* exactly as many whole response frames as it has sent requests; nothing is
\* written to a client that has sent nothing.
C11_OneResponsePerRequest ==
    \A c \in Clients :
        LET sock == sockets[c]
        IN /\ (/\ sock.state = "connected" /\ c \in Range(ioapi_connections)
               /\ sock.wire = <<>> /\ sock.rx = <<>>
               /\ \A i \in 1..Len(sock.sent) : ~MalformedBody(sock.sent[i]))
                 => FrameCount(sock.tx) = Len(sock.sent)
           /\ sock.sent = <<>> => sock.tx = <<>>

\* the list without the elements at the given 0-based positions
WithoutPositions(list, positions) ==
    LET keep == SelectSeq([i \in 1..Len(list) |-> i],
                          LAMBDA i : (i - 1) \notin Range(positions))
    IN [j \in 1..Len(keep) |-> list[keep[j]]]

\* C12: a round of the for loop marks its connection for closing exactly
\* when the read of the length prefix fails with an error that is not
\* WouldBlock, and the end of the iteration removes exactly the marked
\* connections from the open connections, however many there are, and the
\* loop goes on.
C12_ExactlyFailedConnectionsClosed ==
    [][/\ (index' = index + 1) =>
             LET sock == sockets[ioapi_connections[index + 1]]
             IN closed_connections' =
                   IF sock.state = "peer_closed" /\ Len(sock.rx) < 4
                   THEN Append(closed_connections, index)
                   ELSE closed_connections
       /\ (pc = "service" /\ pc' # "service") =>
             /\ pc' = "poll"
             /\ ioapi_connections' =
                   WithoutPositions(ioapi_connections, closed_connections)]_vars

LoopPositions == {"accept", "service", "poll"}

\* C13: the event loop leaves its iteration only at the poll_events step and
\* only when poll_events reports the hotplug thread finished or failed;
\* serving, reading from, writing to and closing connections never stops or
\* crashes it.
C13_LoopStopsOnlyOnHotplugEnd ==
    [][(pc \in LoopPositions /\ pc' \notin LoopPositions) =>
          /\ pc = "poll"
          /\ poll_events \in {"ThreadFinished", "Win32Error"}
          /\ pc' \in {"exited", "failed"}]_vars

\* C14: once the hotplug thread has returned, whether its message loop ended
\* normally or with an OS error, the event loop eventually learns of it from
\* poll_events and terminates.
C14_LoopObservesThreadEnd ==
    (~finish_chan.open) ~> (pc \in {"exited", "failed"})

\* C15: the step in which the hotplug thread returns leaves exactly one
\* outcome in the completion channel, whichever way the thread ends.
C15_ThreadSendsOneOutcome ==
    [][(finish_chan.open /\ ~finish_chan'.open) =>
          Len(finish_chan'.queue) = Len(finish_chan.queue) + 1]_vars

\* C16: poll_events can always be taken (it never waits), and it looks at the
\* completion channel first: a clean outcome there ends the loop as finished
\* and an error outcome ends it as failed, in both cases with the pending
\* events left where they are; with no outcome there the oldest pending event
\* is taken and handled, and with no event pending either the loop goes on
\* with nothing taken, which is neither of the two endings.
C16_PollEventsOrder ==
    [][pc = "poll" =>
          /\ ENABLED PollEvents
          /\ pc' # "poll" =>
                IF finish_chan.queue # <<>>
                THEN /\ pc' = IF Head(finish_chan.queue) = "Ok" THEN "exited" ELSE "failed"
                     /\ finish_chan'.queue = Tail(finish_chan.queue)
                     /\ event_chan' = event_chan
                     /\ processed_events' = processed_events
                ELSE IF event_chan # <<>>
                     THEN /\ pc' = "accept"
                          /\ event_chan' = Tail(event_chan)
                          /\ processed_events' = Append(processed_events, Head(event_chan))
                     ELSE /\ pc' = "accept"
                          /\ event_chan' = event_chan
                          /\ processed_events' = processed_events
                          /\ device_connection_logs' = device_connection_logs]_vars

\* a clean outcome was reported while two events were waiting, and they are
\* still waiting
C16_Witness ==
    /\ pc = "exited"
    /\ Len(event_chan) = MaxPending
    /\ finish_chan.queue = <<>>
    /\ processed_events = <<>>

\* main() is started again with the same devices present: load() and then
\* Whitelist::new(device_tracker), which stores the ids of the root-level
\* devices whatever the keyring holds
MainStartsAgain ==
    /\ phase = "running"
    /\ \E out \in load(DevIds, {<<65>>}, TRUE, os_parent) :
          /\ out.result = "Ok"
          /\ devices' = out.devices
          /\ entry' \in store_whitelist(DOMAIN out.devices)
          /\ last_apply' = [NoApply EXCEPT !.op = "new",
                                           !.stored = Some(DOMAIN out.devices),
                                           !.result = "Ok"]
    /\ last_op' = [NoOp EXCEPT !.op = "load", !.result = "Ok"]
    /\ UNCHANGED <<phase, os_enabled, os_parent>>
    /\ UNCHANGED loop_vars
    /\ UNCHANGED setup_vars

\* the whitelist over several runs of the daemon
NextRuns ==
    \/ WhitelistDevice
    \/ BlacklistDevice
    \/ MainStartsAgain

SpecRuns == InitWhitelist /\ [][NextRuns]_vars

----------------------------------------------------------------------------
(* The whitelist: storing and loading *)

\* the ids that are stored: the empty one, one and two ASCII letters, and a
\* two-byte UTF-8 letter
CodecIds == {<<>>, <<65>>, <<66, 67>>, <<195, 169>>}

\* what may lie in the keyring when load_whitelist reads it: records with a
\* length field of 0, 1, 2, 2^64 - 9, 2^64 - 8 or 2^64 - 1 followed by
\* nothing, a letter, a two-byte letter or a byte that is not UTF-8; up to
\* MaxRecords of them, or one of them cut short
Records ==
    LET LengthFields == {u64_to_le_bytes(0), u64_to_le_bytes(1), u64_to_le_bytes(2),
                         <<247, 255, 255, 255, 255, 255, 255, 255>>,
                         <<248, 255, 255, 255, 255, 255, 255, 255>>,
                         <<255, 255, 255, 255, 255, 255, 255, 255>>}
        Payloads == {<<>>, <<65>>, <<195, 169>>, <<255>>}
    IN {len \o payload : len \in LengthFields, payload \in Payloads}

RECURSIVE BlobsOf(_)
BlobsOf(n) ==
    IF n = 0 THEN {<<>>}
    ELSE BlobsOf(n - 1) \cup {blob \o r : blob \in BlobsOf(n - 1), r \in Records}

Blobs ==
    BlobsOf(MaxRecords) \cup UNION {{SubSeq(r, 1, k) : k \in 0..Len(r)} : r \in Records}

\* the whitelist of a running main(), with any of the blobs in the keyring
InitCodec ==
    /\ phase = "running"
    /\ os_enabled = [d \in AllIds |-> TRUE]
    /\ os_parent \in Worlds
    /\ ChainWorld
    /\ \E out \in load(LoopDevIds, {<<65>>}, TRUE, os_parent) :
          /\ out.result = "Ok"
          /\ devices = out.devices
    /\ last_op = [NoOp EXCEPT !.op = "load", !.result = "Ok"]
    /\ LoopIdle
    /\ entry \in {Some(encode_hex(blob)) : blob \in Blobs}
    /\ last_apply = NoApply
    /\ EVENT_SENDER = [sender |-> None, installs |-> 0, discarded |-> 0]
    /\ console = ""

\* Whitelist::store_whitelist(set)
StoreWhitelist ==
    /\ \E set \in SUBSET CodecIds :
          /\ entry' \in store_whitelist(set)
          /\ last_apply' = [NoApply EXCEPT !.op = "store_whitelist", !.stored = Some(set),
                                           !.result = "Ok"]
    /\ UNCHANGED tracker_vars
    /\ UNCHANGED loop_vars
    /\ UNCHANGED setup_vars

\* Whitelist::load_whitelist(); "stored" keeps the set that was stored last,
\* if the entry comes from store_whitelist
LoadWhitelist ==
    /\ last_apply.op # "load_whitelist"
    /\ LET out == load_whitelist(entry)
       IN last_apply' = [last_apply EXCEPT !.op = "load_whitelist", !.loaded = out.set,
                                           !.result = out.result]
    /\ UNCHANGED entry
    /\ UNCHANGED tracker_vars
    /\ UNCHANGED loop_vars
    /\ UNCHANGED setup_vars

NextCodec ==
    \/ StoreWhitelist
    \/ LoadWhitelist

SpecCodec == InitCodec /\ [][NextCodec]_vars

----------------------------------------------------------------------------
(* Properties of the whitelist *)

\* every device of the forest is enabled exactly if its id is authorized
Enforced(devs, authorized, enabled) ==
    \A p \in AllPaths(devs) :
        enabled[NodeAt(devs, p).devinst] = (NodeAt(devs, p).device_id \in authorized)

\* C17: a pass of apply_whitelist that returns no error leaves every device
\* of the topology enabled if the persisted whitelist contains it and
\* disabled if not; a pass over a topology that is already in that state
\* changes no device's state and fails only if the OS refuses a call.
C17_ApplyEnforcesAndIsIdempotent ==
    [][last_apply'.op = "apply_whitelist" =>
          LET authorized == load_whitelist(entry).set
          IN /\ last_apply'.result = "Ok" => Enforced(devices, authorized, os_enabled')
             /\ (load_whitelist(entry).result = "Ok"
                   /\ Enforced(devices, authorized, os_enabled)) =>
                   /\ os_enabled' = os_enabled
                   /\ last_apply'.result \in {"Ok", "ConfigManagerError"}
                   /\ (\A i \in DOMAIN last_apply'.calls :
                           last_apply'.calls[i].result = "Ok")
                        => last_apply'.result = "Ok"]_vars

\* a pass that returned no error and changed nothing, with an authorized
\* device enabled and an unauthorized one disabled
C17_Witness ==
    /\ last_apply.op = "apply_whitelist"
    /\ last_apply.result = "Ok"
    /\ last_apply.arg = "same"
    /\ \E a, b \in IdsIn(devices) :
          /\ a \in last_apply.loaded /\ os_enabled[ToUpper(a)]
          /\ b \notin last_apply.loaded /\ ~os_enabled[ToUpper(b)]

\* C18: whatever a pass of apply_whitelist returns once it has read the
\* whitelist, every device of the topology has received its call: Enable if
\* the whitelist contains it, Disable if not.
C18_EveryDeviceGetsItsCall ==
    (last_apply.op = "apply_whitelist" /\ load_whitelist(entry).result = "Ok") =>
        \A id \in IdsIn(devices) :
            \E i \in DOMAIN last_apply.calls :
                /\ last_apply.calls[i].id = id
                /\ last_apply.calls[i].state =
                      IF id \in load_whitelist(entry).set THEN "Enable" ELSE "Disable"

\* C19: loading what store_whitelist has written for a set of ids returns
\* that set, in whatever order the records were written.
C19_StoreLoadRoundTrip ==
    (last_apply.op = "load_whitelist" /\ last_apply.stored # None) =>
        /\ last_apply.result = "Ok"
        /\ last_apply.loaded = last_apply.stored[1]

\* a set of four ids, the empty one and the non-ASCII one among them, was
\* stored with the empty id not in the first record, and has been loaded
C19_Witness ==
    /\ last_apply.op = "load_whitelist"
    /\ last_apply.stored # None
    /\ Cardinality(last_apply.stored[1]) = 4
    /\ <<195, 169>> \in last_apply.loaded
    /\ <<>> \in last_apply.loaded
    /\ SubSeq(entry[1], 1, 2) # <<48, 48>>

\* the blob is a sequence of whole records: each an 8-byte length that the
\* rest of the blob covers, followed by that many bytes of UTF-8
RECURSIVE WholeRecords(_)
WholeRecords(blob) ==
    \/ blob = <<>>
    \/ /\ Len(blob) >= 8
       /\ \A k \in 4..8 : blob[k] = 0
       /\ LET len == blob[1] + 256 * blob[2] + 65536 * blob[3]
          IN /\ len <= Len(blob) - 8
             /\ from_utf8_ok(SubSeq(blob, 9, 8 + len))
             /\ WholeRecords(SubSeq(blob, 9 + len, Len(blob)))

\* C20: load_whitelist on any blob returns a set if the blob is a sequence
\* of whole records, and one of the corruption errors if not; it never
\* panics, whatever the 64 bits of a length field are.
C20_CorruptBlobIsAnError ==
    (last_apply.op = "load_whitelist" /\ last_apply.stored = None) =>
        LET blob == decode_hex(entry[1]).bytes
        IN IF WholeRecords(blob)
           THEN last_apply.result = "Ok"
           ELSE last_apply.result \in {"CorruptEofLength", "CorruptEofString", "CorruptUtf8"}

\* C21: whitelist_device adds exactly the given id to the persisted set and
\* blacklist_device removes exactly the given id from it; neither makes an
\* enable or disable call, and both leave what the OS has enabled and the
\* topology as they were.
C21_AddRemoveChangeOnlyTheSet ==
    [][(last_apply'.op \in {"whitelist_device", "blacklist_device"}
         /\ last_apply'.result = "Ok") =>
          /\ load_whitelist(entry').result = "Ok"
          /\ load_whitelist(entry').set =
                IF last_apply'.op = "whitelist_device"
                THEN load_whitelist(entry).set \cup {last_apply'.arg}
                ELSE load_whitelist(entry).set \ {last_apply'.arg}
          /\ last_apply'.calls = <<>>
          /\ os_enabled' = os_enabled
          /\ devices' = devices]_vars

\* a device of the topology has just been taken off the whitelist and is
\* still enabled
C21_Witness ==
    /\ last_apply.op = "blacklist_device"
    /\ last_apply.result = "Ok"
    /\ last_apply.arg \in IdsIn(devices)
    /\ last_apply.arg \notin load_whitelist(entry).set
    /\ os_enabled[last_apply.arg]
    /\ \E d \in DevIds : ~os_enabled[d]

\* C22: when main() is started again and the keyring already holds a
\* whitelist, Whitelist::new leaves the persisted set as it is.
C22_NewKeepsPersistedWhitelist ==
    [][(last_apply'.op = "new" /\ load_whitelist(entry).result = "Ok") =>
          /\ load_whitelist(entry').result = "Ok"
          /\ load_whitelist(entry').set = load_whitelist(entry).set]_vars

\* C23: when the loop has processed the Connected event of a device and has
\* inserted it into the tracker, and its id is not in the persisted
\* whitelist, the OS has that device disabled.
C23_UnauthorizedArrivalDisabled ==
    [][(/\ Len(processed_events') = Len(processed_events) + 1
        /\ processed_events'[Len(processed_events')].kind = "Connected") =>
          LET device_id ==
                device_path_to_device_id(processed_events'[Len(processed_events')].device_path)
          IN (/\ device_id \in DevIds
              /\ last_op'.result = "Ok"
              /\ load_whitelist(entry').result = "Ok"
              /\ device_id \notin load_whitelist(entry').set)
                => ~os_enabled'[device_id]]_vars

\* C24: an id that differs only in letter case from the id of a device in
\* the forest denotes that device: set_device_state with such an id finds it.
C24_IdsCaseInsensitive ==
    (last_op.op \in {"Enable", "Disable"} /\ ToUpper(last_op.id) \in IdsIn(devices)) =>
        last_op.result # "DeviceNotExist"

----------------------------------------------------------------------------
(* Properties of the ids and of the commands *)

\* "USB\VID_046D&PID_C52B\5&2752457F&0&2"
STR_example_id ==
    <<85, 83, 66, 92, 86, 73, 68, 95, 48, 52, 54, 68, 38, 80, 73, 68, 95,
      67, 53, 50, 66, 92, 53, 38, 50, 55, 53, 50, 52, 53, 55, 70, 38, 48, 38,
      50>>

SentCommand == sockets[1].sent[1]
SentRequest == sockets[1].tx

\* C26: a command whose id has no space, made into a request and parsed by
\* the daemon, comes back as the same variant with the same id; the request
\* is a 4-byte big-endian length, the opcode 2, 3, 4 or 5 and the id's bytes,
\* and the length is the number of bytes that follow it.
C26_RequestRoundTrip ==
    (/\ last_dispatch.result \in {"Some", "None"}
     /\ \A i \in DOMAIN SentCommand.arg : SentCommand.arg[i] # 32) =>
        /\ last_dispatch.result = "Some"
        /\ last_dispatch.cmd = SentCommand.cmd
        /\ last_dispatch.arg = SentCommand.arg
        /\ Len(SentRequest) >= 5
        /\ SentRequest[1] * 16777216 + SentRequest[2] * 65536
             + SentRequest[3] * 256 + SentRequest[4] = Len(SentRequest) - 4
        /\ SentRequest[5] = (CASE SentCommand.cmd = "GetDeviceList" -> 2
                               [] SentCommand.cmd = "DisableDevice" -> 3
                               [] SentCommand.cmd = "EnableDevice" -> 4
                               [] SentCommand.cmd = "GetDeviceConnectionLogs" -> 5)
        /\ SubSeq(SentRequest, 6, Len(SentRequest)) = SentCommand.arg

\* an EnableDevice whose id has a backslash and a two-byte character has
\* come back
C26_Witness ==
    /\ last_dispatch.result = "Some"
    /\ last_dispatch.cmd = "EnableDevice"
    /\ last_dispatch.arg = <<92, 195, 169>>
    /\ SentCommand.arg = <<92, 195, 169>>

\* C27: the tokens of a line that starts with a name the shell documents
\* make the command of that name: disable_device and enable_device with an
\* id make DisableDevice and EnableDevice of that id, get_device_list makes
\* GetDeviceList and get_device_connection_logs GetDeviceConnectionLogs.
C27_DocumentedNamesParse ==
    LET cmd_tokens == sockets[1].sent
    IN (last_dispatch.result \in {"Ok", "Err", "panic"} /\ Len(cmd_tokens) >= 1) =>
          /\ (cmd_tokens[1] = DocumentedNames.disable_device /\ Len(cmd_tokens) = 2) =>
                (/\ last_dispatch.result = "Ok" /\ last_dispatch.cmd = "DisableDevice"
                 /\ last_dispatch.arg = cmd_tokens[2])
          /\ (cmd_tokens[1] = DocumentedNames.enable_device /\ Len(cmd_tokens) = 2) =>
                (/\ last_dispatch.result = "Ok" /\ last_dispatch.cmd = "EnableDevice"
                 /\ last_dispatch.arg = cmd_tokens[2])
          /\ cmd_tokens = <<DocumentedNames.get_device_list>> =>
                (last_dispatch.result = "Ok" /\ last_dispatch.cmd = "GetDeviceList")
          /\ cmd_tokens = <<DocumentedNames.get_device_connection_logs>> =>
                (/\ last_dispatch.result = "Ok"
                 /\ last_dispatch.cmd = "GetDeviceConnectionLogs")

----------------------------------------------------------------------------
(* Properties of the forest *)

\* a forest holds exactly the devices of a flat set, each once, under its
\* declared parent when that parent is in the set and as a root otherwise
ForestOf(forest, ids) ==
    /\ IdsIn(forest) = ids
    /\ Cardinality(AllPaths(forest)) = Cardinality(ids)
    /\ \A p \in AllPaths(forest) :
          LET device == NodeAt(forest, p)
          IN IF device.parent_id # None /\ device.parent_id[1] \in ids
             THEN /\ Len(p) > 1
                  /\ p[Len(p) - 1] = device.parent_id[1]
                  /\ device.tree_level = NodeAt(forest, ParentPath(p)).tree_level + 1
             ELSE Len(p) = 1

\* C28: building the forest of an enumerated set of devices, whatever the
\* depth of its parent-to-child chains, ends without a failure, and the
\* forest holds every device of the set once, under its declared parent
\* with that parent's tree_level + 1 when the parent is in the set, and as a
\* root otherwise.
C28_ConvertBuildsForest ==
    /\ last_op.op = "load" => last_op.result \in {"Ok", "Win32Error"}
    /\ \A instances \in SUBSET DevIds :
       \A out \in get_listed_devices(instances, os_parent) :
          out.fail = "none" => ForestOf(out.devices, instances)

\* C29: the forest does not depend on the order of merging: after a load or
\* an insert_device_by_id that succeeded, the forest is the one that loading
\* the same devices gives, however they are split into the two classes and
\* in whatever order the maps are walked.
C29_MergeOrderIndependent ==
    [][(last_op'.op \in {"load", "insert"} /\ last_op'.result = "Ok") =>
          \A usb \in SUBSET IdsIn(devices') :
          \A out \in load(IdsIn(devices'), usb, TRUE, os_parent) :
             out.result = "Ok" => out.devices = devices']_vars

\* C30: in every state of the tracker a root declares no parent or a parent
\* that is not in the forest, and every other device is in the children map
\* of the device its parent_id names.
C30_RootsAndChildren ==
    phase = "running" =>
        \A p \in AllPaths(devices) :
            LET device == NodeAt(devices, p)
            IN /\ Len(p) = 1 =>
                     \/ device.parent_id = None
                     \/ device.parent_id[1] \notin IdsIn(devices)
               /\ Len(p) > 1 => device.parent_id = Some(p[Len(p) - 1])

----------------------------------------------------------------------------
(* Properties of the loop's iterations *)

C32_TopologyOnlyByLoop ==
    [][/\ (devices' # devices \/ os_enabled' # os_enabled \/ last_op' # last_op) =>
             \/ /\ pc = "service"
                /\ index' = index + 1
                /\ processed_events' = processed_events
                /\ event_chan' = event_chan
                /\ devices' = devices
             \/ /\ pc = "poll"
                /\ Len(processed_events') = Len(processed_events) + 1
                /\ event_chan' = Tail(event_chan)
                /\ sockets' = sockets
                /\ os_enabled' = os_enabled
       /\ (Len(event_chan') > Len(event_chan) \/ finish_chan'.open # finish_chan.open) =>
             /\ devices' = devices
             /\ os_enabled' = os_enabled
             /\ last_op' = last_op]_vars

\* a device was disabled over IPC and a hotplug removal has then taken a
\* device out of the forest
C32_Witness ==
    /\ ~os_enabled[<<65>>]
    /\ processed_events # <<>>
    /\ last_op.op = "remove"
    /\ last_op.result = "Some"

----------------------------------------------------------------------------
(* Properties of the hotplug source *)

\* C33: once main() has set up the callbacks, which is before the hotplug
\* thread exists, the slot EVENT_SENDER holds the sender and has been written
\* exactly once, it is never written before that, and no notification has
\* been dropped because the slot was empty.
C33_SenderInstalledOnce ==
    /\ pc = "idle" => (EVENT_SENDER.sender = None /\ EVENT_SENDER.installs = 0)
    /\ pc # "idle" => (EVENT_SENDER.sender # None /\ EVENT_SENDER.installs = 1)
    /\ EVENT_SENDER.discarded = 0

\* a notification has found the sender and its event waits in the channel
C33_Witness ==
    /\ EVENT_SENDER.installs = 1
    /\ EVENT_SENDER.sender # None
    /\ pc = "poll"
    /\ Len(event_chan) = 1

\* C34: every event the hotplug thread has published is in the end taken by
\* the loop, once and in the order of publication, also when the thread
\* stops after publishing it.
C34_PublishedEventsDelivered ==
    /\ [][/\ Len(processed_events') >= Len(processed_events)
          /\ SubSeq(processed_events', 1, Len(processed_events)) = processed_events
          /\ Len(processed_events') > Len(processed_events) =>
                /\ processed_events' = Append(processed_events, Head(event_chan))
                /\ event_chan' = Tail(event_chan)]_vars
    /\ \A e \in HotplugEvents : (Len(event_chan) > 0 /\ event_chan[1] = e)
                                   ~> (event_chan = <<>> /\ processed_events = <<e>>)

----------------------------------------------------------------------------
(* Properties of the iterator *)

\* C35: a traversal of the forest, as apply_whitelist runs it, hands out no
\* device twice and every device after all the devices above it; a traversal
\* that runs to its end has handed out every device of the forest, so two
\* traversals of the same forest hand out the same devices.
C35_IterVisitsEachOnce ==
    last_apply.op = "apply_whitelist" =>
        LET visited == [k \in DOMAIN last_apply.calls |-> last_apply.calls[k].id]
        IN /\ \A i, j \in DOMAIN visited : i # j => visited[i] # visited[j]
           /\ \A k \in DOMAIN visited :
              \A p \in AllPaths(devices) :
                 p[Len(p)] = visited[k] =>
                    \A a \in 1..(Len(p) - 1) : \E j \in 1..(k - 1) : visited[j] = p[a]
           /\ last_apply.result = "Ok" =>
                 {visited[k] : k \in DOMAIN visited} = IdsIn(devices)

\* a traversal has run to its end over a forest with a device, its child and
\* its grandchild
C35_Witness ==
    /\ last_apply.op = "apply_whitelist"
    /\ last_apply.result = "Ok"
    /\ Len(last_apply.calls) = 3
    /\ \E p \in AllPaths(devices) : Len(p) = 3

\* C36: right after Whitelist::new the stored whitelist holds the id of every
\* device of the forest, roots and descendants, so an apply_whitelist that
\* runs next disables no device.
C36_NewAuthorizesWholeForest ==
    [][last_apply.op = "new" =>
          /\ load_whitelist(entry).result = "Ok"
          /\ IdsIn(devices) \subseteq load_whitelist(entry).set
          /\ last_apply'.op = "apply_whitelist" =>
                \A k \in DOMAIN last_apply'.calls : last_apply'.calls[k].state # "Disable"]_vars

----------------------------------------------------------------------------
(* Properties of insert_device_by_id *)

\* C37: insert_device_by_id of an id that is already in the forest leaves
\* the forest as it is: the node keeps its place, its tree_level and its
\* children.
C37_RepeatedInsertChangesNothing ==
    [][(/\ last_op'.op = "insert"
        /\ last_op'.result = "Ok"
        /\ last_op'.id \in IdsIn(devices)) => devices' = devices]_vars

\* C38: an insert_device_by_id that returns an error (the device is not
\* found by the OS, its id cannot be read, or it is filtered out as a hub)
\* leaves the forest exactly as it was.
C38_FailedInsertLeavesForest ==
    [][(/\ last_op'.op = "insert"
        /\ last_op'.result \in {"Win32Error", "DeviceFilteredNotUsb"})
       => devices' = devices]_vars

\* a hub was refused while the forest held devices
C38_Witness ==
    /\ last_op.op = "insert"
    /\ last_op.result = "DeviceFilteredNotUsb"
    /\ devices # EmptyMap

----------------------------------------------------------------------------
(* Properties of the framing of requests *)

\* the bytes a client has written for the requests it has sent
RECURSIVE SentStream(_)
SentStream(sent) ==
    IF sent = <<>> THEN <<>>
    ELSE RequestFrame(Head(sent)) \o SentStream(Tail(sent))

\* how many of a client's bytes the daemon has taken from its socket
ReadPosition(sock) == Len(SentStream(sock.sent)) - Len(sock.wire) - Len(sock.rx)

\* C39: at the start of every iteration of the loop the read position of
\* each open connection is at a frame boundary of what its client has sent:
\* the bytes of a frame that has arrived in part are neither thrown away nor
\* read as part of another frame.
C39_ReadAtFrameBoundary ==
    pc = "accept" =>
        \A i \in 1..Len(ioapi_connections) :
            LET sock == sockets[ioapi_connections[i]]
            IN ReadPosition(sock) \in
                   {Len(SentStream(SubSeq(sock.sent, 1, k))) : k \in 0..Len(sock.sent)}

----------------------------------------------------------------------------
(* Properties of what the loop reports *)

\* C40: on a Disconnected event the loop reports that the device was
\* removed exactly when remove_device_by_id took a device out of the forest,
\* and reports an error of the removal exactly when no device with that id
\* was found.
C40_RemovalReportedAsItWent ==
    [][(/\ Len(processed_events') = Len(processed_events) + 1
        /\ processed_events'[Len(processed_events')].kind = "Disconnected")
       => /\ last_op'.op = "remove"
          /\ (console' = "- Device removed from tracker") <=> (last_op'.result = "Some")
          /\ (console' = "- Error removing device from tracker: ")
                <=> (last_op'.result = "None")]_vars

====
